---- MODULE Spec2Model ----
(***************************************************************************)
(* A model of the waterbug IRC session engine (src/src/waterbug/network.py):*)
(* the Server session, its reply table (Server.MessageReceiver), the User   *)
(* and Channel registries, the outbound queue with its drain loop, the      *)
(* callback registry and the connect/read loop.                             *)
(*                                                                         *)
(* Text is modelled as a sequence of code points, so that str.lower(),      *)
(* ord(), len() and slicing are computed as Python computes them.  Python   *)
(* objects with identity (User, Channel) live in two heaps, uobj and cobj,  *)
(* indexed by object ids; a registry maps a case-folded key to an id.  An   *)
(* optional value (an attribute that may be unset, None) is a sequence of   *)
(* length 0 or 1.                                                          *)
(*                                                                         *)
(* Specifications: RegSpec (the registries under the reply table), LoopSpec *)
(* and FairLoopSpec (the session from connect() on, with the outbound queue *)
(* and its history), CbSpec and TokSpec (dispatch, callbacks and on()),     *)
(* WriteSpec (Server.write as a function of the line and of TOPICLEN),      *)
(* DictSpec (CaseInsensitiveDict), ParseSpec and DataSpec (the splitting of *)
(* inbound data), SupSpec (005), NickSpec (433), WelcomeSpec (001),         *)
(* TimerSpec (the keepalive timer), SendSpec (the outbound senders),        *)
(* QuitSpec (Server.quit), OnceSpec (callbacks that unregister themselves)  *)
(* and AttrSpec (verbs that name other attributes of the receiver).         *)
(***************************************************************************)
EXTENDS Integers, Sequences, FiniteSets, TLC

VARIABLES
    users,               \* Server.users: CaseInsensitiveDict key -> User id
    channels,            \* Server.channels: CaseInsensitiveDict key -> Channel id
    uobj,                \* heap of live User objects: id -> [username, knownchannels,
                         \*   ident, hostname]
    cobj,                \* heap of live Channel objects: id -> [channelname, users]
    ownuser,             \* Server.ownuser: <<>> while the attribute is unset, else <<id>>
    supported,           \* Server.supported: capability table, key -> value
    connected,           \* Server.connected
    welcomed,            \* Server.welcomed
    reconnect,           \* Server.reconnect
    username,            \* Server.username, the nickname the session asks for
    host,                \* Server.host: <<>> for None, else <<id of the 001 sender>>
    message_queue,       \* Server.message_queue: lines waiting for the drain loop
    writer_task,         \* Server.writer_task / handle_write: "none", "get", "sleep"
    timers,              \* pending loop.call_later(keepalive) handles
    keepalive_handler,   \* Server._keepalive_handler: <<>> while unset, else <<handle>>
    callbacks,           \* Server.callbacks: set of registration keys
    issued,              \* the key sets add_callback returned to other code:
                         \*   number -> [handler, flags, live]
    futures,             \* the futures of on(): id -> [state, calls, ok, flag]
    pc,                  \* where connect()/read() stands
    attempt,             \* connect(): the attempt counter of the for loop
    could_parse_message, \* read(): the local variable, <<>> while unbound
    nread,               \* the number of lines read() has processed
    wire,                \* history: the lines handle_write wrote to the socket
    submitted,           \* history: the lines write() enqueued on this connection
    track,               \* whether the two histories above are recorded
    autojoin,            \* Server.autojoin: the channels joined on the welcome
    receiver,            \* what Server.receiver.server refers to: "Server" or "User"
    last                 \* history: what the last step did

vars == <<users, channels, uobj, cobj, ownuser, supported, connected, welcomed,
          reconnect, username, host, message_queue, writer_task, timers,
          keepalive_handler, callbacks, issued, futures, pc, attempt,
          could_parse_message, nread, wire, submitted, track, autojoin, receiver,
          last>>

----------------------------------------------------------------------------
(* Bounds of the model.                                                    *)

MaxUserObjs == 4      \* live User objects
MaxChanObjs == 3      \* live Channel objects
MaxQueue == 2         \* lines waiting in message_queue
MaxLines == 4         \* inbound lines read on one connection
MaxTimers == 2        \* pending keepalive timers
MaxWaiters == 2       \* calls of on() in one run
MaxCallbacks == 1     \* calls of add_callback by other code in one run
MaxWrites == 6        \* lines recorded in the history of write()
MaxLen == 3           \* length of the short lines passed to write()
MaxLimit == 3         \* the small values of TOPICLEN

----------------------------------------------------------------------------
(* Text.                                                                   *)

Min(S) == CHOOSE x \in S : \A y \in S : x <= y

\* str.lower() on ASCII text
LowerChar(c) == IF c >= 65 /\ c <= 90 THEN c + 32 ELSE c
Lower(s) == [i \in 1..Len(s) |-> LowerChar(s[i])]

\* "".join(ss), joining the two halves of ss
RECURSIVE Concat(_)
Concat(ss) ==
    IF ss = <<>> THEN <<>>
    ELSE IF Len(ss) = 1 THEN ss[1]
    ELSE Concat(SubSeq(ss, 1, Len(ss) \div 2))
         \o Concat(SubSeq(ss, Len(ss) \div 2 + 1, Len(ss)))

\* str(n) for n >= 0
RECURSIVE Dec(_)
Dec(n) == IF n < 10 THEN <<48 + n>> ELSE Dec(n \div 10) \o <<48 + (n % 10)>>

\* s[:n] for n >= 0
Take(s, n) == SubSeq(s, 1, IF n < Len(s) THEN n ELSE Len(s))

sWHO == <<87, 72, 79, 32>>
sUHNFAR == <<32, 37, 117, 104, 110, 102, 97, 114>>
sJOIN == <<74, 79, 73, 78, 32>>
sPART == <<80, 65, 82, 84, 32>>
sNICK == <<78, 73, 67, 75, 32, 58>>
sUSER == <<85, 83, 69, 82, 32>>
sPING == <<80, 73, 78, 71, 32, 58>>
sQUIT == <<81, 85, 73, 84, 32, 58>>
sMarker == <<60, 46, 46, 46, 62>>
sPrefixVal == <<40, 111, 118, 41, 64, 43>>

----------------------------------------------------------------------------
(* More text: str.split and int().                                         *)

\* the index of the first sep in s, 0 when there is none
RECURSIVE FindFrom(_, _, _)
FindFrom(s, sep, i) == IF i > Len(s) THEN 0 ELSE IF s[i] = sep THEN i ELSE FindFrom(s, sep, i + 1)

\* s.split(sep, maxsplit) for a one-character sep; maxsplit < 0 means no limit
RECURSIVE SplitMax(_, _, _)
SplitMax(s, sep, maxsplit) ==
    LET i == FindFrom(s, sep, 1)
    IN  IF i = 0 \/ maxsplit = 0 THEN <<s>>
        ELSE <<SubSeq(s, 1, i - 1)>> \o SplitMax(SubSeq(s, i + 1, Len(s)), sep, maxsplit - 1)

Split(s, sep) == SplitMax(s, sep, -1)

\* s.startswith(pre)
StartsWith(s, pre) == Len(s) >= Len(pre) /\ SubSeq(s, 1, Len(pre)) = pre

IsDigits(s) == s # <<>> /\ \A i \in 1..Len(s) : s[i] >= 48 /\ s[i] <= 57
\* whether int(s) succeeds (an optional sign, then decimal digits)
IsInt(s) == IF s # <<>> /\ s[1] \in {43, 45} THEN IsDigits(Tail(s)) ELSE IsDigits(s)
RECURSIVE DigitsValue(_)
DigitsValue(s) == IF s = <<>> THEN 0 ELSE 10 * DigitsValue(SubSeq(s, 1, Len(s) - 1)) + (s[Len(s)] - 48)
IntOf(s) == IF s[1] = 45 THEN 0 - DigitsValue(Tail(s))
            ELSE IF s[1] = 43 THEN DigitsValue(Tail(s)) ELSE DigitsValue(s)

\* the text without its sign
Unsigned(s) == IF s # <<>> /\ s[1] \in {43, 45} THEN Tail(s) ELSE s
sInf == <<105, 110, 102>>
sInfinity == <<105, 110, 102, 105, 110, 105, 116, 121>>
sNan == <<110, 97, 110>>
IsSpecialFloat(s) == Lower(Unsigned(s)) \in {sInf, sInfinity, sNan}
\* digits with at most one ".", at least one digit
IsDecimal(s) ==
    LET parts == Split(Unsigned(s), 46)
    IN  /\ Len(parts) <= 2
        /\ \A i \in 1..Len(parts) : parts[i] = <<>> \/ IsDigits(parts[i])
        /\ \E i \in 1..Len(parts) : parts[i] # <<>>
\* whether float(s) succeeds, for a text without an exponent, blanks or "_"
IsFloat(s) == IsDecimal(s) \/ IsSpecialFloat(s)
\* whether n > float(s), n an integer from 0
ExceedsFloat(n, s) ==
    IF IsSpecialFloat(s) THEN s[1] = 45 /\ Lower(Unsigned(s)) # sNan
    ELSE LET parts == Split(Unsigned(s), 46)
             zero == \A i \in 1..Len(parts) : \A j \in 1..Len(parts[i]) : parts[i][j] = 48
         IN  IF s[1] = 45 THEN ~(zero /\ n = 0)
             ELSE n > DigitsValue(parts[1])

----------------------------------------------------------------------------
(* CaseInsensitiveDict: a function whose domain holds case-folded keys.    *)

EmptyDict == <<>>
CIcontains(d, k) == Lower(k) \in DOMAIN d
CIget(d, k) == d[Lower(k)]
\* a __setitem__ that stores the key as it is given
CIset_exact(d, k, v) == [x \in (DOMAIN d) \cup {k} |-> IF x = k THEN v ELSE d[x]]
CIset(d, k, v) == [x \in (DOMAIN d) \cup {Lower(k)} |-> IF x = Lower(k) THEN v ELSE d[x]]
CIdel(d, k) == [x \in (DOMAIN d) \ {Lower(k)} |-> d[x]]
Values(d) == {d[k] : k \in DOMAIN d}

----------------------------------------------------------------------------
(* The session state a handler works on is gathered in one record s, so    *)
(* that a handler is a function of the state.  s.exc says that an          *)
(* exception is propagating; s.oom says that the model ran out of object   *)
(* ids (the step is then not taken).  A handler whose result depends on    *)
(* the iteration order of a dict or a set returns the set of its possible  *)
(* results.                                                                *)

Halted(s) == s.exc \/ s.oom
Raise(s) == [s EXCEPT !.exc = TRUE]

kTOPICLEN == <<84, 79, 80, 73, 67, 76, 69, 78>>
kPREFIX == <<80, 82, 69, 70, 73, 88>>
DefaultMaxLength == 300

IntVal(n) == [t |-> "int", n |-> n, s |-> <<>>]
StrVal(x) == [t |-> "str", n |-> 0, s |-> x]
TrueVal == [t |-> "bool", n |-> 1, s |-> <<>>]
\* a float is kept by the text it was read from
FloatVal(x) == [t |-> "float", n |-> 0, s |-> x]

\* "".join("[{}]".format(ord(x)) if ord(x) < 0x20 else x for x in line),
\* computed on the two halves of the line
RECURSIVE Escape(_)
Escape(line) ==
    IF line = <<>> THEN <<>>
    ELSE IF Len(line) = 1
    THEN (IF line[1] < 32 THEN <<91>> \o Dec(line[1]) \o <<93>> ELSE line)
    ELSE Escape(SubSeq(line, 1, Len(line) \div 2))
         \o Escape(SubSeq(line, Len(line) \div 2 + 1, Len(line)))

\* line[:n], n of either sign
PySlice(line, n) == IF n >= 0 THEN Take(line, n)
                    ELSE Take(line, IF Len(line) + n > 0 THEN Len(line) + n ELSE 0)

\* self.supported.get('TOPICLEN', 300)
MaxLengthOf(sup) == IF kTOPICLEN \in DOMAIN sup THEN sup[kTOPICLEN] ELSE IntVal(DefaultMaxLength)

\* a write that compares the length of the line as passed, and cuts that
Sanitize_raw(line, maxlength) ==
    IF Len(line) > maxlength THEN Escape(PySlice(line, maxlength)) \o <<32>> \o sMarker
    ELSE Escape(line)

\* Server.write up to the put: the line that is enqueued (maxlength is a number)
Sanitize(line, maxlength) ==
    LET esc == Escape(line)
    IN  IF Len(esc) > maxlength THEN PySlice(esc, maxlength) \o <<32>> \o sMarker ELSE esc

\* a queue that hands out the newest line first
Enqueue_front(q, line) == <<line>> \o q

\* asyncio.Queue.put_nowait on the unbounded queue
Enqueue(q, line) == Append(q, line)

\* Server.write
write(s, line) ==
    IF Halted(s) THEN s
    ELSE LET m == MaxLengthOf(s.supported)
         IN  IF m.t = "str" THEN Raise(s)   \* len(line) > "..." is a TypeError
             ELSE IF m.t = "float"
             THEN IF ExceedsFloat(Len(Escape(line)), m.s)
                  THEN Raise(s)             \* line[:1.5] is a TypeError
                  ELSE [s EXCEPT !.message_queue = Enqueue(@, Escape(line)),
                                 !.submitted = IF s.track THEN Append(@, Escape(line)) ELSE @]
             ELSE LET out == Sanitize(line, m.n)
                  IN  [s EXCEPT !.message_queue = Enqueue(@, out),
                                !.submitted = IF s.track THEN Append(@, out) ELSE @]

sPRIVMSG == <<80, 82, 73, 86, 77, 83, 71, 32>>
sNOTICE == <<78, 79, 84, 73, 67, 69, 32>>

\* Server.msg (msg names a line elsewhere in this module), Server.notice
msg_to(s, target, message) == write(s, sPRIVMSG \o target \o <<32, 58>> \o message)
notice(s, target, message) == write(s, sNOTICE \o target \o <<32, 58>> \o message)

\* a nick() that takes the new nickname at once
nick_renaming(s, n) == write([s EXCEPT !.username = n], sNICK \o n)

\* Server.who (extended), Server.join, Server.part, Server.nick
who(s, mask) == write(s, sWHO \o mask \o sUHNFAR)
join(s, channel) == write(s, sJOIN \o channel)
part(s, channel) == write(s, sPART \o channel)
nick(s, n) == write(s, sNICK \o n)

----------------------------------------------------------------------------
(* User and Channel objects.                                               *)

FreeUids(s) == (1..MaxUserObjs) \ DOMAIN s.uobj
FreeCids(s) == (1..MaxChanObjs) \ DOMAIN s.cobj

\* the id the next User(...) / Channel(...) gets; 0 when the model has none left
NextUid(s) == IF FreeUids(s) = {} THEN 0 ELSE Min(FreeUids(s))
NextCid(s) == IF FreeCids(s) = {} THEN 0 ELSE Min(FreeCids(s))

\* User.__init__: the new object is NextUid(s)
User(s, name) ==
    IF Halted(s) THEN s
    ELSE IF NextUid(s) = 0 THEN [s EXCEPT !.oom = TRUE]
    ELSE [s EXCEPT !.uobj = [i \in (DOMAIN @) \cup {NextUid(s)} |->
                 IF i = NextUid(s) THEN [username |-> name, knownchannels |-> EmptyDict,
                                         ident |-> <<>>, hostname |-> <<>>]
                 ELSE @[i]]]

\* Channel.__init__: the new object is NextCid(s)
Channel(s, name) ==
    IF Halted(s) THEN s
    ELSE IF NextCid(s) = 0 THEN [s EXCEPT !.oom = TRUE]
    ELSE [s EXCEPT !.cobj = [i \in (DOMAIN @) \cup {NextCid(s)} |->
                 IF i = NextCid(s) THEN [channelname |-> name, users |-> EmptyDict]
                 ELSE @[i]]]

\* User.add_channel
add_channel(s, u, c) ==
    IF Halted(s) THEN s
    ELSE LET name == s.uobj[u].username
             s1 == IF CIcontains(s.users, name) THEN s
                   ELSE [s EXCEPT !.users = CIset(@, name, u)]
         IN  [s1 EXCEPT !.uobj[u].knownchannels = CIset(@, s.cobj[c].channelname, c),
                        !.cobj[c].users = CIset(@, name, u)]

\* del self.knownchannels[channel.channelname]; del channel.users[self.username]
DropMembership(s, u, c) ==
    IF Halted(s) THEN s
    ELSE IF ~CIcontains(s.uobj[u].knownchannels, s.cobj[c].channelname) THEN Raise(s)
    ELSE LET s1 == [s EXCEPT !.uobj[u].knownchannels = CIdel(@, s.cobj[c].channelname)]
         IN  IF ~CIcontains(s1.cobj[c].users, s1.uobj[u].username) THEN Raise(s1)
             ELSE [s1 EXCEPT !.cobj[c].users = CIdel(@, s1.uobj[u].username)]

\* del self.server.users[self.username]
DropUser(s, u) ==
    IF Halted(s) THEN s
    ELSE IF ~CIcontains(s.users, s.uobj[u].username) THEN Raise(s)
    ELSE [s EXCEPT !.users = CIdel(@, s.uobj[u].username)]

\* User.remove_channel of a user that is not the local user
remove_channel_other(s, u, c) ==
    LET s1 == DropMembership(s, u, c)
    IN  IF Halted(s1) THEN s1
        ELSE IF s1.ownuser = <<>> THEN Raise(s1)   \* self.server.ownuser is unset
        ELSE IF DOMAIN s1.uobj[u].knownchannels = {} THEN DropUser(s1, u)
        ELSE s1

\* a User.remove_channel that leaves the other members of the channel alone
RemoveOthers_none(s, self, c, members, todo) == {s}

\* the loop of User.remove_channel over list(channel.users.values()): members is
\* the snapshot the list holds, todo the keys not yet visited, in any order
RECURSIVE RemoveOthers(_, _, _, _, _)
RemoveOthers(s, self, c, members, todo) ==
    IF Halted(s) \/ todo = {} THEN {s}
    ELSE UNION { RemoveOthers(IF members[k] = self THEN s
                              ELSE remove_channel_other(s, members[k], c),
                              self, c, members, todo \ {k}) : k \in todo }

\* del self.server.channels[channel.channelname]
DropChannel(s, c) ==
    IF Halted(s) THEN s
    ELSE IF ~CIcontains(s.channels, s.cobj[c].channelname) THEN Raise(s)
    ELSE [s EXCEPT !.channels = CIdel(@, s.cobj[c].channelname)]

\* User.remove_channel: the set of possible results
remove_channel(s, u, c) ==
    IF Halted(s) THEN {s}
    ELSE LET s1 == DropMembership(s, u, c)
         IN  IF Halted(s1) THEN {s1}
             ELSE IF s1.ownuser = <<>> THEN {Raise(s1)}
             ELSE IF s1.ownuser[1] = u
                  THEN { DropChannel(r, c) :
                         r \in RemoveOthers(s1, u, c, s1.cobj[c].users,
                                            DOMAIN s1.cobj[c].users) }
             ELSE IF DOMAIN s1.uobj[u].knownchannels = {} THEN {DropUser(s1, u)}
             ELSE {s1}

\* a User.rename that leaves the old nickname in the channels
DropFromChannels_none(s, u, known, todo) == {s}

\* for channel in self.knownchannels.values(): del channel.users[self.username]
RECURSIVE DropFromChannels(_, _, _, _)
DropFromChannels(s, u, known, todo) ==
    IF Halted(s) \/ todo = {} THEN {s}
    ELSE UNION { DropFromChannels(
                    IF ~CIcontains(s.cobj[known[k]].users, s.uobj[u].username) THEN Raise(s)
                    ELSE [s EXCEPT !.cobj[known[k]].users = CIdel(@, s.uobj[u].username)],
                    u, known, todo \ {k}) : k \in todo }

\* for channel in self.knownchannels.values(): channel.users[self.username] = self
RECURSIVE PutInChannels(_, _, _, _)
PutInChannels(s, u, known, todo) ==
    IF todo = {} THEN s
    ELSE LET k == CHOOSE x \in todo : TRUE
         IN  PutInChannels([s EXCEPT !.cobj[known[k]].users = CIset(@, s.uobj[u].username, u)],
                           u, known, todo \ {k})

\* User.rename: the set of possible results
rename(s, u, newnick) ==
    IF Halted(s) THEN {s}
    ELSE LET s1 == DropUser(s, u)
             known == s.uobj[u].knownchannels
         IN  { IF Halted(r) THEN r
               ELSE LET r1 == [r EXCEPT !.uobj[u].username = newnick]
                        r2 == [r1 EXCEPT !.users = CIset(@, newnick, u)]
                    IN  PutInChannels(r2, u, known, DOMAIN known)
               : r \in DropFromChannels(s1, u, known, DOMAIN known) }

----------------------------------------------------------------------------
(* The session configuration (the arguments of Server.__init__).          *)

nMe == <<109, 101>>          \* "me", the configured nickname
nAl == <<97, 108>>           \* "al"
nAL == <<65, 108>>           \* "Al"
nBo == <<98, 111>>           \* "bo"
nSrv == <<115>>              \* "s", the server's name
cC == <<35, 99>>             \* "#c"
cD == <<35, 100>>            \* "#d"

Autojoin == <<cC>>           \* autojoin
OriginalUsername == nMe      \* username

----------------------------------------------------------------------------
(* Server.on_welcome, Server.keepalive and the reply table.                *)

FreeTimers(s) == (1..MaxTimers) \ s.timers

\* self.loop.call_later(self.keepalive_interval, self.keepalive), remembered
ArmKeepalive(s) ==
    IF Halted(s) THEN s
    ELSE IF FreeTimers(s) = {} THEN [s EXCEPT !.oom = TRUE]
    ELSE [s EXCEPT !.timers = @ \cup {Min(FreeTimers(s))},
                   !.keepalive_handler = <<Min(FreeTimers(s))>>]

\* an on_welcome that joins the last channel of the list first
RECURSIVE JoinAll_backwards(_, _)
JoinAll_backwards(s, chans) ==
    IF chans = <<>> THEN s
    ELSE JoinAll_backwards(join(s, chans[Len(chans)]), SubSeq(chans, 1, Len(chans) - 1))

\* for channel in self.autojoin: self.join(channel)
RECURSIVE JoinAll(_, _)
JoinAll(s, chans) == IF chans = <<>> THEN s ELSE JoinAll(join(s, Head(chans)), Tail(chans))

\* Server.on_welcome; self.autojoin is assigned by __init__ alone
on_welcome(s, sender) ==
    IF Halted(s) THEN s
    ELSE ArmKeepalive(JoinAll([s EXCEPT !.host = <<sender>>, !.welcomed = TRUE], autojoin))

\* a JOIN handler that creates the Channel whoever the sender is
JOIN_any_sender(s, sender, p) ==
    IF s.ownuser = <<>> THEN Raise(s)
    ELSE LET c == NextCid(s)
             s0 == Channel(s, p[1])
             s1 == IF Halted(s0) THEN s0
                   ELSE who([s0 EXCEPT !.channels = CIset(@, p[1], c)], p[1])
         IN  IF Halted(s1) THEN s1
             ELSE add_channel(s1, sender, CIget(s1.channels, p[1]))

\* MessageReceiver.JOIN
JOIN(s, sender, p) ==
    IF s.ownuser = <<>> THEN Raise(s)
    ELSE LET s1 == IF sender = s.ownuser[1]
                   THEN LET c == NextCid(s)
                            s0 == Channel(s, p[1])
                        IN  IF Halted(s0) THEN s0
                            ELSE who([s0 EXCEPT !.channels = CIset(@, p[1], c)], p[1])
                   ELSE who(s, s.uobj[sender].username)
         IN  IF Halted(s1) THEN s1
             ELSE IF ~CIcontains(s1.channels, p[1]) THEN Raise(s1)
             ELSE add_channel(s1, sender, CIget(s1.channels, p[1]))

\* MessageReceiver.PART
PART(s, sender, p) ==
    IF ~CIcontains(s.channels, p[1]) THEN {Raise(s)}
    ELSE remove_channel(s, sender, CIget(s.channels, p[1]))

\* MessageReceiver.KICK
KICK(s, sender, p) ==
    IF ~CIcontains(s.users, p[2]) THEN {Raise(s)}
    ELSE PART(s, CIget(s.users, p[2]), <<p[1]>>)

\* MessageReceiver.QUIT
QUIT(s, sender, p) ==
    { DropUser(r, sender) :
      r \in DropFromChannels(s, sender, s.uobj[sender].knownchannels,
                             DOMAIN s.uobj[sender].knownchannels) }

\* MessageReceiver.NICK
NICK(s, sender, p) == rename(s, sender, p[1])

\* MessageReceiver._001
Reply001(s, sender, p) ==
    LET u == NextUid(s)
        s1 == User(s, p[1])
    IN  IF Halted(s1) THEN s1
        ELSE on_welcome([s1 EXCEPT !.ownuser = <<u>>, !.users = CIset(@, p[1], u)], sender)

\* "{}".format(n) for n >= 0
RECURSIVE DigitsOf(_)
DigitsOf(n) == IF n < 10 THEN <<48 + n>> ELSE DigitsOf(n \div 10) \o <<48 + (n % 10)>>

\* str.isdigit: the decimal digits and, beyond ASCII, digits such as the
\* superscripts, which int() does not take
IsDigitText(x) == x # <<>> /\ \A i \in 1..Len(x) : x[i] \in (48..57) \cup {178, 179, 185}

\* a 433 handler that appends "1" to the nickname that was rejected
Reply433_append(s, sender, p) ==
    IF s.welcomed THEN s
    ELSE LET name == p[2] \o <<49>>
         IN  nick([s EXCEPT !.username = name], name)

\* MessageReceiver._433
Reply433(s, sender, p) ==
    IF s.welcomed THEN s
    ELSE LET rest == SubSeq(p[2], Len(OriginalUsername) + 1, Len(p[2]))
         IN  IF StartsWith(p[2], OriginalUsername) /\ IsDigitText(rest)
             THEN IF ~IsDigits(rest) THEN Raise(s)          \* int(): ValueError
                  ELSE LET name == OriginalUsername \o DigitsOf(DigitsValue(rest) + 1)
                       IN  nick([s EXCEPT !.username = name], name)
             ELSE LET name == OriginalUsername \o <<49>>
                  IN  nick([s EXCEPT !.username = name], name)

\* int(x), else float(x), else x
Coerce(x) == IF IsInt(x) THEN IntVal(IntOf(x))
             ELSE IF IsFloat(x) THEN FloatVal(x) ELSE StrVal(x)

\* a 005 handler that keeps every value as text
Supported1_text(s, token) ==
    LET a == SplitMax(token, 61, 2)
    IN  [s EXCEPT !.supported = [k \in (DOMAIN @) \cup {a[1]} |->
              IF k = a[1] THEN (IF Len(a) = 2 THEN StrVal(a[2]) ELSE TrueVal) ELSE @[k]]]

\* MessageReceiver._005: one token of the loop
Supported1(s, token) ==
    LET a == SplitMax(token, 61, 2)
    IN  IF Len(a) = 2
        THEN [s EXCEPT !.supported = [k \in (DOMAIN @) \cup {a[1]} |->
                  IF k = a[1] THEN Coerce(a[2]) ELSE @[k]]]
        ELSE [s EXCEPT !.supported = [k \in (DOMAIN @) \cup {a[1]} |->
                  IF k = a[1] THEN TrueVal ELSE @[k]]]

RECURSIVE SupportedAll(_, _)
SupportedAll(s, tokens) ==
    IF tokens = <<>> THEN s ELSE SupportedAll(Supported1(s, Head(tokens)), Tail(tokens))

\* MessageReceiver._005
Reply005(s, sender, p) ==
    IF Len(p) = 1 THEN Raise(s)   \* itertools.islice(message, -1) is a ValueError
    ELSE SupportedAll(s, SubSeq(p, 2, Len(p) - 1))

\* MessageReceiver._353: one name of the loop
Names1(s, chan, name0) ==
    IF Halted(s) THEN s
    ELSE IF name0 = <<>> THEN Raise(s)                      \* username[0]
    ELSE IF kPREFIX \notin DOMAIN s.supported THEN Raise(s)  \* supported["PREFIX"]
    ELSE IF s.supported[kPREFIX].t # "str" THEN Raise(s)     \* x in <not a str>
    ELSE LET pre == s.supported[kPREFIX].s
             name == IF \E i \in 1..Len(pre) : pre[i] = name0[1] THEN Tail(name0) ELSE name0
             known == CIcontains(s.users, name)
             u == IF known THEN CIget(s.users, name) ELSE NextUid(s)
             s1 == IF known THEN s ELSE User(s, name)
         IN  IF Halted(s1) THEN s1
             ELSE IF ~CIcontains(s1.channels, chan) THEN Raise(s1)
             ELSE add_channel(s1, u, CIget(s1.channels, chan))

RECURSIVE NamesAll(_, _, _)
NamesAll(s, chan, names) ==
    IF names = <<>> THEN s ELSE NamesAll(Names1(s, chan, Head(names)), chan, Tail(names))

\* MessageReceiver._353
Reply353(s, sender, p) == NamesAll(s, p[3], Split(p[4], 32))

\* the handlers that only log: verb -> the numbers of parameters they accept
LogOnly == [v \in {"PRIVMSG", "NOTICE", "PONG", "002", "003", "250", "251", "255",
                   "372", "375", "376", "252", "253", "254", "265", "266", "315", "366"} |->
            CASE v \in {"PRIVMSG", "NOTICE", "PONG", "252", "253", "254", "366"} -> {2}
              [] v \in {"265", "266", "315"} -> {3}
              [] OTHER -> {1}]

\* the handlers that change the session
Handlers == {"JOIN", "PART", "KICK", "QUIT", "NICK", "001", "005", "353", "433"}

\* whether f(*message) binds n parameters after the sender
Accepts(v, n) ==
    CASE v = "JOIN" -> n = 1
      [] v = "PART" -> n \in {1, 2}
      [] v = "KICK" -> n \in {2, 3}
      [] v = "QUIT" -> n \in {0, 1}
      [] v = "NICK" -> n = 1
      [] v = "001" -> n = 2
      [] v = "005" -> n >= 1
      [] v = "353" -> n = 4
      [] v = "433" -> n = 3

\* the verbs for which getattr finds an attribute of the receiver that is no
\* reply handler: the attribute server, and the methods __init__, __call__ and
\* _default (found under "_default", and under "default" by the second getattr)
Attributes == {"server", "__init__", "__call__", "default", "_default"}

\* MessageReceiver.__call__: the set of possible results [s, ret], where ret is
\* the value returned, or "raised" with s.exc set.  Every handler and _default
\* begin with self.server.logger, which a User does not have.
Receiver(s, msgtype, sender, p) ==
    IF msgtype = "__init__"
    THEN IF Len(p) = 0 THEN {[s |-> [s EXCEPT !.receiver = "User"], ret |-> "True"]}
         ELSE {[s |-> Raise(s), ret |-> "raised"]}         \* TypeError: __init__(self, server)
    ELSE IF s.receiver = "User" \/ msgtype \in {"server", "__call__"}
    THEN {[s |-> Raise(s), ret |-> "raised"]}              \* AttributeError, TypeError
    ELSE IF msgtype \in {"default", "_default"}
    THEN IF Len(p) >= 1 THEN {[s |-> s, ret |-> "True"]}
         ELSE {[s |-> Raise(s), ret |-> "raised"]}         \* TypeError: _default(msgtype, sender)
    ELSE IF msgtype \in DOMAIN LogOnly
    THEN IF Len(p) \in LogOnly[msgtype] THEN {[s |-> s, ret |-> "True"]}
         ELSE {[s |-> Raise(s), ret |-> "raised"]}         \* TypeError: f(*message)
    ELSE IF msgtype \in Handlers
    THEN IF ~Accepts(msgtype, Len(p)) THEN {[s |-> Raise(s), ret |-> "raised"]}
         ELSE { [s |-> r, ret |-> IF r.exc THEN "raised" ELSE "True"] :
                r \in CASE msgtype = "JOIN" -> {JOIN(s, sender, p)}
                        [] msgtype = "PART" -> PART(s, sender, p)
                        [] msgtype = "KICK" -> KICK(s, sender, p)
                        [] msgtype = "QUIT" -> QUIT(s, sender, p)
                        [] msgtype = "NICK" -> NICK(s, sender, p)
                        [] msgtype = "001" -> {Reply001(s, sender, p)}
                        [] msgtype = "005" -> {Reply005(s, sender, p)}
                        [] msgtype = "353" -> {Reply353(s, sender, p)}
                        [] msgtype = "433" -> {Reply433(s, sender, p)} }
    ELSE {[s |-> s, ret |-> "False"]}                      \* self._default

----------------------------------------------------------------------------
(* Garbage: an object no registry, attribute or other live object refers   *)
(* to is dropped from the heap, so that its id can be used again.          *)

RECURSIVE Reach(_, _, _)
Reach(s, U, C) ==
    LET U2 == U \cup UNION { Values(s.cobj[c].users) : c \in C }
        C2 == C \cup UNION { Values(s.uobj[u].knownchannels) : u \in U }
    IN  IF U2 = U /\ C2 = C THEN <<U, C>> ELSE Reach(s, U2, C2)

Collect(s) ==
    LET live == Reach(s, Values(s.users) \cup {s.ownuser[i] : i \in DOMAIN s.ownuser}
                            \cup {s.host[i] : i \in DOMAIN s.host},
                      Values(s.channels))
    IN  [s EXCEPT !.uobj = [u \in live[1] |-> @[u]], !.cobj = [c \in live[2] |-> @[c]]]

\* the session state as a record, and back
Session ==
    [users |-> users, channels |-> channels, uobj |-> uobj, cobj |-> cobj,
     ownuser |-> ownuser, supported |-> supported, connected |-> connected,
     welcomed |-> welcomed, host |-> host, username |-> username,
     message_queue |-> message_queue, submitted |-> submitted, track |-> track,
     autojoin |-> autojoin, receiver |-> receiver,
     writer_task |-> writer_task, timers |-> timers,
     keepalive_handler |-> keepalive_handler, exc |-> FALSE, oom |-> FALSE]

Commit(s0) ==
    LET s == Collect(s0)
    IN  /\ users' = s.users
        /\ channels' = s.channels
        /\ uobj' = s.uobj
        /\ cobj' = s.cobj
        /\ ownuser' = s.ownuser
        /\ supported' = s.supported
        /\ connected' = s.connected
        /\ welcomed' = s.welcomed
        /\ host' = s.host
        /\ username' = s.username
        /\ message_queue' = s.message_queue
        /\ submitted' = s.submitted
        /\ writer_task' = s.writer_task
        /\ timers' = s.timers
        /\ keepalive_handler' = s.keepalive_handler
        /\ track' = track
        /\ autojoin' = autojoin
        /\ receiver' = s.receiver

----------------------------------------------------------------------------
(* The callback registry and the read loop.                                *)

\* the bounds of the model on the outbound queue and on its history
Bounded(s) == Len(s.message_queue) <= MaxQueue /\ Len(s.submitted) <= MaxWrites

\* the read task takes its next step: the event loop runs the callbacks it was
\* handed in order, so the wake-up of a task waiting in on() comes first
ReadTurn == pc = "reading" /\ \A f \in DOMAIN futures : futures[f].state # "woken"

\* a line as read() splits it: the sender's nickname, ident and host (<<>> for
\* None), the verb, the parameters, and the text of the line when it is given
NoMsg == [nick |-> <<>>, verb |-> "", params |-> <<>>, ident |-> <<>>, host |-> <<>>,
          text |-> <<>>]
NoWho == [username |-> <<>>, ident |-> <<>>, hostname |-> <<>>]
NoStep == [op |-> "init", msg |-> NoMsg, sender |-> 0, own |-> FALSE, ret |-> "",
           ran |-> FALSE, invoked |-> {}, order |-> <<>>, nusers |-> 0, who |-> NoWho]

\* the orders in which a for loop can come by the elements of the set S
Orders(S) == {o \in [1..Cardinality(S) -> S] : \A i, j \in DOMAIN o : o[i] = o[j] => i = j}

\* Server.read: the User the line is dispatched with is u, a registered user
\* or a new one; host and ident are set when the line gives them
SetIdentity(s, u, ident, hostname) ==
    IF Halted(s) THEN s
    ELSE [s EXCEPT !.uobj[u].hostname = IF hostname # <<>> THEN hostname ELSE @,
                   !.uobj[u].ident = IF ident # <<>> THEN ident ELSE @]

\* Server.run_callbacks: keys are the registrations of the flag, which the for
\* loop takes in the order of the set; a callback of on() sets its future's
\* result (an InvalidStateError, caught, when it is set already), a failure of
\* a callback is logged
run_callbacks(futs, keys, ok) ==
    [f \in DOMAIN futs |->
        IF \E k \in keys : k.cb.kind = "waiter" /\ k.cb.id = f
        THEN [futs[f] EXCEPT !.calls = @ + 1,
                             !.state = IF @ = "pending" THEN "woken" ELSE @,
                             !.ok = IF futs[f].state = "pending" THEN ok ELSE @]
        ELSE futs[f]]

\* a read() that runs the callbacks whenever could_parse_message is bound
RunsCallbacks_bound(cpm) == cpm # <<>>

\* whether read() goes on to run_callbacks: could_parse_message as it stands
\* after the try statement (cpm is <<>> while the name is unbound)
RunsCallbacks(cpm) == cpm # <<>> /\ cpm[1]

\* could_parse_message after the try statement of read()
AfterTry(ret, before) == IF ret = "raised" THEN before ELSE <<ret = "True">>

\* Server.read: one turn of the loop on a complete line with a sender prefix
ReadLine(msg) ==
    /\ ReadTurn
    /\ nread < MaxLines
    /\ LET known == CIcontains(users, msg.nick)
           sender == IF known THEN CIget(users, msg.nick) ELSE NextUid(Session)
           s1 == SetIdentity(IF known THEN Session ELSE User(Session, msg.nick),
                             sender, msg.ident, msg.host)
       IN  /\ ~s1.oom
           /\ \E r \in Receiver(s1, msg.verb, sender, msg.params) :
                LET cpm == AfterTry(r.ret, could_parse_message)
                    keys == {k \in callbacks : k.flag = msg.verb}
                    plain == {k \in keys : k.cb.kind = "plain"}
                IN  /\ ~r.s.oom
                    /\ Bounded(r.s)
                    /\ Commit(r.s)
                    /\ could_parse_message' = cpm
                    /\ pc' = IF cpm = <<>> THEN "failed" ELSE "reading"
                    /\ futures' = IF RunsCallbacks(cpm)
                                  THEN run_callbacks(futures, keys, r.ret = "True")
                                  ELSE futures
                    /\ nread' = nread + 1
                    /\ \E o \in (IF RunsCallbacks(cpm) THEN Orders(plain) ELSE {<<>>}) :
                         last' = [op |-> "line", msg |-> msg, sender |-> sender,
                                own |-> (ownuser = <<sender>>), ret |-> r.ret,
                                ran |-> RunsCallbacks(cpm),
                                invoked |-> IF RunsCallbacks(cpm) THEN keys ELSE {},
                                order |-> o,
                                nusers |-> Cardinality(DOMAIN users),
                                who |-> [username |-> s1.uobj[sender].username,
                                         ident |-> s1.uobj[sender].ident,
                                         hostname |-> s1.uobj[sender].hostname]]
                    /\ UNCHANGED <<reconnect, callbacks, issued, attempt, wire>>

----------------------------------------------------------------------------
(* Server.handle_write, the drain loop.                                    *)

\* a drain loop that goes for the next line without sleeping
DrainWrite_eager ==
    /\ writer_task = "get"
    /\ message_queue # <<>>
    /\ message_queue' = Tail(message_queue)
    /\ wire' = IF track THEN Append(wire, Head(message_queue)) ELSE wire
    /\ writer_task' = "get"
    /\ last' = [NoStep EXCEPT !.op = "drain"]
    /\ UNCHANGED <<users, channels, uobj, cobj, ownuser, supported, connected, welcomed,
                   reconnect, username, host, timers, keepalive_handler, callbacks, issued,
                   futures, pc, attempt, could_parse_message, nread, submitted, track,
                   autojoin, receiver>>

\* line, log = yield from self.message_queue.get(); self.writer.write(...)
DrainWrite ==
    /\ writer_task = "get"
    /\ message_queue # <<>>
    /\ message_queue' = Tail(message_queue)
    /\ wire' = IF track THEN Append(wire, Head(message_queue)) ELSE wire
    /\ writer_task' = "sleep"
    /\ last' = [NoStep EXCEPT !.op = "drain"]
    /\ UNCHANGED <<users, channels, uobj, cobj, ownuser, supported, connected, welcomed,
                   reconnect, username, host, timers, keepalive_handler, callbacks, issued,
                   futures, pc, attempt, could_parse_message, nread, submitted, track, autojoin, receiver>>

\* yield from asyncio.sleep(self.throttle) returns
DrainWake ==
    /\ writer_task = "sleep"
    /\ writer_task' = "get"
    /\ last' = [NoStep EXCEPT !.op = "wake"]
    /\ UNCHANGED <<users, channels, uobj, cobj, ownuser, supported, connected, welcomed,
                   reconnect, username, host, message_queue, timers, keepalive_handler,
                   callbacks, issued, futures, pc, attempt, could_parse_message, nread, wire,
                   submitted, track, autojoin, receiver>>

----------------------------------------------------------------------------
(* Server.add_callback, Server.remove_callback and Server.on.              *)

\* the key (obj, callback, flag, flags) of one registration
KeyOf(obj, cb, flag, flags) == [obj |-> obj, cb |-> cb, flag |-> flag, flags |-> flags]

\* the key of on(flag): call number id made its object, its callback and its future
Key(kind, id, flag) ==
    KeyOf([kind |-> kind, id |-> id], [kind |-> kind, id |-> id], flag, {flag})

\* the object and the callback of the registrations made by other code
TokenObj(t) == [kind |-> "token", id |-> t]
Handler(h) == [kind |-> "plain", id |-> h]

\* Server.add_callback: the keys it returns, and the registry with them
KeysOf(obj, cb, flags) == {KeyOf(obj, cb, flag, flags) : flag \in flags}
add_callback(cbs, obj, cb, flags) == cbs \cup KeysOf(obj, cb, flags)

\* a remove_callback that goes by the callback and its flags
remove_callback_handler(cbs, keys) ==
    {[cbs |-> {k \in cbs : \A j \in keys : ~(j.cb = k.cb /\ j.flags = k.flags)},
      exc |-> FALSE]}

\* Server.remove_callback: the possible results; the keys are removed in the
\* order of the set, and removing a key that is not registered is a KeyError
RECURSIVE remove_callback(_, _)
remove_callback(cbs, keys) ==
    IF keys = {} THEN {[cbs |-> cbs, exc |-> FALSE]}
    ELSE UNION { IF k \in cbs THEN remove_callback(cbs \ {k}, keys \ {k})
                 ELSE {[cbs |-> cbs, exc |-> TRUE]} : k \in keys }

Still == <<users, channels, uobj, cobj, ownuser, supported, connected, welcomed,
           reconnect, username, host, message_queue, writer_task, timers,
           keepalive_handler, pc, attempt, could_parse_message, nread, wire,
           submitted, track, autojoin, receiver>>
Quiet == <<Still, issued>>

\* Server.on up to "yield from future", called by a task that a command started
OnRegister(flag) ==
    /\ pc = "reading"
    /\ \E f \in (1..MaxWaiters) \ DOMAIN futures :
         /\ f = Min((1..MaxWaiters) \ DOMAIN futures)
         /\ futures' = [g \in (DOMAIN futures) \cup {f} |->
                          IF g = f THEN [state |-> "pending", calls |-> 0, ok |-> FALSE,
                                         flag |-> flag]
                          ELSE futures[g]]
         /\ callbacks' = add_callback(callbacks, [kind |-> "waiter", id |-> f],
                                      [kind |-> "waiter", id |-> f], {flag})
    /\ last' = [NoStep EXCEPT !.op = "on"]
    /\ UNCHANGED Quiet

\* Server.on from the wake-up of its task: the result is returned and the
\* finally clause removes the registration
OnResume(f) ==
    /\ f \in DOMAIN futures
    /\ futures[f].state = "woken"
    /\ futures' = [futures EXCEPT ![f].state = "done"]
    /\ \E r \in remove_callback(callbacks, {Key("waiter", f, futures[f].flag)}) :
         callbacks' = r.cbs
    /\ last' = [NoStep EXCEPT !.op = "resume"]
    /\ UNCHANGED Quiet

\* Server.add_callback called by other code with its callback h: the keys
\* returned are kept by the caller as the next entry of issued
AddCallback(h, flags) ==
    /\ pc = "reading"
    /\ LET t == Cardinality(DOMAIN issued) + 1
       IN  /\ callbacks' = add_callback(callbacks, TokenObj(t), Handler(h), flags)
           /\ issued' = [i \in (DOMAIN issued) \cup {t} |->
                           IF i = t THEN [handler |-> h, flags |-> flags, live |-> TRUE]
                           ELSE issued[i]]
           /\ last' = [NoStep EXCEPT !.op = "add", !.sender = t]
    /\ UNCHANGED <<futures>>
    /\ UNCHANGED Still

\* Server.remove_callback called by other code with the keys numbered t
RemoveCallback(t) ==
    /\ pc = "reading"
    /\ t \in DOMAIN issued
    /\ \E r \in remove_callback(callbacks,
                                 KeysOf(TokenObj(t), Handler(issued[t].handler),
                                        issued[t].flags)) :
         /\ callbacks' = r.cbs
         /\ issued' = [issued EXCEPT ![t].live = IF r.exc THEN @ ELSE FALSE]
         /\ last' = [NoStep EXCEPT !.op = "remove", !.sender = t,
                                   !.ret = IF r.exc THEN "raised" ELSE "None"]
    /\ UNCHANGED <<futures>>
    /\ UNCHANGED Still

----------------------------------------------------------------------------
(* Server.connect.                                                         *)

MaxReconnects == 5

\* "".join(c for c in self.username.lower() if 'a' <= c <= 'z')
RECURSIVE Letters(_)
Letters(s) == IF s = <<>> THEN <<>>
              ELSE (IF Head(s) >= 97 /\ Head(s) <= 122 THEN <<Head(s)>> ELSE <<>>)
                   \o Letters(Tail(s))

Ident == [user |-> Letters(Lower(OriginalUsername)), hostname |-> <<45>>,
          servername |-> <<45>>, realname |-> OriginalUsername]

\* Server.user
user(s, ident) ==
    write(s, sUSER \o ident.user \o <<32>> \o ident.hostname \o <<32>>
             \o ident.servername \o <<32, 58>> \o ident.realname)

\* the caller (Waterbug.open_connections) calls connect(): the for loop starts
Connect ==
    /\ pc = "idle"
    /\ pc' = "connecting"
    /\ attempt' = 0
    /\ last' = [NoStep EXCEPT !.op = "connect"]
    /\ UNCHANGED <<users, channels, uobj, cobj, ownuser, supported, connected, welcomed,
                   reconnect, username, host, message_queue, writer_task, timers,
                   keepalive_handler, callbacks, issued, futures, could_parse_message, nread,
                   wire, submitted, track, autojoin, receiver>>

\* a connect() that gives up and leaves reconnect as it is
ConnectTimeout_keeps ==
    /\ pc = "connecting"
    /\ IF attempt + 1 < MaxReconnects
       THEN attempt' = attempt + 1 /\ pc' = pc
       ELSE attempt' = attempt /\ pc' = "gaveup"
    /\ last' = [NoStep EXCEPT !.op = "connect_timeout"]
    /\ UNCHANGED <<users, channels, uobj, cobj, ownuser, supported, connected, welcomed,
                   reconnect, username, host, message_queue, writer_task, timers,
                   keepalive_handler, callbacks, issued, futures, could_parse_message, nread,
                   wire, submitted, track, autojoin, receiver>>

\* asyncio.wait_for(open_connection) times out: the next attempt, or the else
\* clause of the for loop
ConnectTimeout ==
    /\ pc = "connecting"
    /\ IF attempt + 1 < MaxReconnects
       THEN attempt' = attempt + 1 /\ pc' = pc /\ reconnect' = reconnect
       ELSE attempt' = attempt /\ pc' = "gaveup" /\ reconnect' = FALSE
    /\ last' = [NoStep EXCEPT !.op = "connect_timeout"]
    /\ UNCHANGED <<users, channels, uobj, cobj, ownuser, supported, connected, welcomed,
                   username, host, message_queue, writer_task, timers,
                   keepalive_handler, callbacks, issued, futures, could_parse_message, nread,
                   wire, submitted, track, autojoin, receiver>>

\* a connect() that registers with USER before NICK
ConnectOk_user_first ==
    /\ pc = "connecting"
    /\ LET s1 == [Session EXCEPT !.connected = TRUE, !.writer_task = "get"]
           s2 == nick(user(s1, Ident), username)
       IN  /\ Bounded(s2)
           /\ Commit(s2)
           /\ pc' = IF s2.exc THEN "failed" ELSE "reading"
    /\ last' = [NoStep EXCEPT !.op = "connected"]
    /\ UNCHANGED <<reconnect, callbacks, issued, futures, attempt, could_parse_message, nread,
                   wire>>

\* the connection is opened: the drain loop is started, NICK and USER are
\* enqueued and read() is entered
ConnectOk ==
    /\ pc = "connecting"
    /\ LET s1 == [Session EXCEPT !.connected = TRUE, !.writer_task = "get"]
           s2 == user(nick(s1, username), Ident)
       IN  /\ Bounded(s2)
           /\ Commit(s2)
           /\ pc' = IF s2.exc THEN "failed" ELSE "reading"
    /\ last' = [NoStep EXCEPT !.op = "connected"]
    /\ UNCHANGED <<reconnect, callbacks, issued, futures, attempt, could_parse_message, nread,
                   wire>>

----------------------------------------------------------------------------
(* Server.read on a line without a sender, the end of the read loop, the   *)
(* keepalive timer and the writes of other tasks.                          *)

sPINGverb == <<80, 73, 78, 71>>
sPONG == <<80, 79, 78, 71, 32>>


\* Server.read: one turn of the loop on a complete line that does not start
\* with ":"
ReadPlain(text) ==
    /\ ReadTurn
    /\ nread < MaxLines
    /\ LET parts == Split(text, 32)
           s1 == IF ~StartsWith(text, sPINGverb) THEN Session
                 ELSE IF Len(parts) < 2 THEN Raise(Session)   \* text.split(' ')[1]
                 ELSE write(Session, sPONG \o parts[2])
       IN  /\ Bounded(s1)
           /\ Commit(s1)
           /\ pc' = IF s1.exc THEN "failed" ELSE "reading"
    /\ nread' = nread + 1
    /\ last' = [NoStep EXCEPT !.op = "plain", !.msg = [NoMsg EXCEPT !.params = <<text>>]]
    /\ UNCHANGED <<reconnect, callbacks, issued, futures, attempt, could_parse_message, wire>>

\* a reset_connection that leaves the drain loop and its queue alone
reset_connection_draining(s) ==
    LET s1 == [s EXCEPT !.channels = EmptyDict, !.users = EmptyDict,
                        !.supported = EmptyDict, !.connected = FALSE,
                        !.welcomed = FALSE]
    IN  IF s1.keepalive_handler = <<>> THEN Raise(s1)
        ELSE [s1 EXCEPT !.timers = @ \ {s1.keepalive_handler[1]}]

\* Server.reset_connection; the cancelled drain loop catches its
\* CancelledError and returns
reset_connection(s) ==
    LET s1 == [s EXCEPT !.channels = EmptyDict, !.users = EmptyDict,
                        !.supported = EmptyDict, !.connected = FALSE,
                        !.welcomed = FALSE, !.writer_task = "none",
                        !.message_queue = <<>>]
    IN  IF s1.keepalive_handler = <<>> THEN Raise(s1)  \* no attribute _keepalive_handler
        ELSE [s1 EXCEPT !.timers = @ \ {s1.keepalive_handler[1]}]

\* Server.read: the loop is left by a break, and reset_connection() is called;
\* data is what the read returned, if it returned
AbortRead(cause, data) ==
    /\ ReadTurn
    /\ LET s1 == reset_connection(Session)
       IN  /\ Commit(s1)
           /\ pc' = IF s1.exc THEN "failed" ELSE "closed"
    /\ last' = [NoStep EXCEPT !.op = cause, !.msg = [NoMsg EXCEPT !.text = data]]
    /\ UNCHANGED <<reconnect, callbacks, issued, futures, attempt, could_parse_message, nread,
                   wire>>

\* asyncio.wait_for(self.reader.readline(), ...) raises TimeoutError
ReadTimeout == AbortRead("timeout", <<>>)

\* the read returns no data: the end of the stream
ReadPartial == AbortRead("partial", <<>>)

\* a keepalive that sends its PING and arms no timer
keepalive_once(s, t) ==
    LET s0 == [s EXCEPT !.timers = @ \ {t}]
    IN  IF s0.host # <<>> THEN write(s0, sPING \o s0.uobj[s0.host[1]].username) ELSE s0

\* Server.keepalive, called by the pending timer t
keepalive(s, t) ==
    LET s0 == [s EXCEPT !.timers = @ \ {t}]
        s1 == IF s0.host # <<>> THEN write(s0, sPING \o s0.uobj[s0.host[1]].username)
              ELSE s0
    IN  ArmKeepalive(s1)

Keepalive(t) ==
    /\ t \in timers
    /\ LET s1 == keepalive(Session, t)
       IN  /\ ~s1.oom
           /\ Bounded(s1)
           /\ Commit(s1)
    /\ last' = [NoStep EXCEPT !.op = "keepalive"]
    /\ UNCHANGED <<reconnect, callbacks, issued, futures, pc, attempt, could_parse_message,
                   nread, wire>>

\* Server.write called by the task of a command
ExternalWrite(line) ==
    /\ pc \in {"reading", "closed", "failed"}
    /\ LET s1 == write(Session, line)
       IN  /\ Bounded(s1)
           /\ Commit(s1)
    /\ last' = [NoStep EXCEPT !.op = "write", !.msg = [NoMsg EXCEPT !.params = <<line>>]]
    /\ UNCHANGED <<reconnect, callbacks, issued, futures, pc, attempt, could_parse_message,
                   nread, wire>>

----------------------------------------------------------------------------
(* The registries under the reply table: the session is connected, its     *)
(* registration lines are written, and the server sends any of RegLines.   *)

Msg(n, v, p) == [NoMsg EXCEPT !.nick = n, !.verb = v, !.params = p]

RegNicks == {nMe, nAl, nBo}
RegChans == {cC, cD}
RegLines ==
    {Msg(nSrv, "001", <<nMe, <<>>>>),
     Msg(nSrv, "005", <<nMe, kPREFIX \o <<61>> \o sPrefixVal, <<>>>>),
     Msg(nSrv, "353", <<nMe, <<61>>, cC, <<64>> \o nBo \o <<32>> \o nAl>>),
     Msg(nAl, "KICK", <<cC, nMe>>), Msg(nAl, "KICK", <<cC, nBo>>),
     Msg(nAl, "NICK", <<nAL>>), Msg(nAl, "NICK", <<nBo>>), Msg(nMe, "NICK", <<nBo>>)}
    \cup {Msg(n, "JOIN", <<c>>) : n \in RegNicks, c \in RegChans}
    \cup {Msg(n, "PART", <<c>>) : n \in RegNicks, c \in RegChans}
    \cup {Msg(n, "QUIT", <<>>) : n \in RegNicks}

\* the state connect() leaves once NICK and USER are written to the socket
RegInit ==
    /\ users = EmptyDict /\ channels = EmptyDict
    /\ uobj = EmptyDict /\ cobj = EmptyDict
    /\ ownuser = <<>> /\ supported = EmptyDict
    /\ connected = TRUE /\ welcomed = FALSE /\ reconnect = TRUE
    /\ username = OriginalUsername /\ host = <<>>
    /\ message_queue = <<>> /\ writer_task = "get"
    /\ timers = {} /\ keepalive_handler = <<>>
    /\ callbacks = {} /\ issued = EmptyDict /\ futures = EmptyDict
    /\ pc = "reading" /\ attempt = 0
    /\ could_parse_message = <<>> /\ nread = 0
    /\ wire = <<>> /\ submitted = <<>> /\ track = FALSE
    /\ autojoin = Autojoin
    /\ receiver = "Server"
    /\ last = NoStep

\* the server keeps nicknames unique: it announces no change of nickname to a
\* nickname under which the session knows another user
Conforming(msg) ==
    msg.verb = "NICK" =>
        \A u \in DOMAIN uobj :
            Lower(uobj[u].username) = Lower(msg.params[1])
                => Lower(uobj[u].username) = Lower(msg.nick)

RegNext ==
    \/ \E msg \in RegLines : Conforming(msg) /\ ReadLine(msg)
    \/ DrainWrite
    \/ DrainWake

RegSpec == RegInit /\ [][RegNext]_vars

----------------------------------------------------------------------------
(* Server.read: a complete line that starts with ":" is split into the     *)
(* sender, the verb and the parameters.                                    *)

\* the text of the verbs the model names
VerbText(v) ==
    CASE v = "JOIN" -> <<74, 79, 73, 78>>
      [] v = "PART" -> <<80, 65, 82, 84>>
      [] v = "KICK" -> <<75, 73, 67, 75>>
      [] v = "QUIT" -> <<81, 85, 73, 84>>
      [] v = "NICK" -> <<78, 73, 67, 75>>
      [] v = "001" -> <<48, 48, 49>>
      [] v = "005" -> <<48, 48, 53>>
      [] v = "353" -> <<51, 53, 51>>
      [] v = "433" -> <<52, 51, 51>>
      [] v = "PRIVMSG" -> <<80, 82, 73, 86, 77, 83, 71>>
      [] v = "NOTICE" -> <<78, 79, 84, 73, 67, 69>>
      [] v = "PONG" -> <<80, 79, 78, 71>>
      [] v = "002" -> <<48, 48, 50>>
      [] v = "003" -> <<48, 48, 51>>
      [] v = "250" -> <<50, 53, 48>>
      [] v = "251" -> <<50, 53, 49>>
      [] v = "255" -> <<50, 53, 53>>
      [] v = "372" -> <<51, 55, 50>>
      [] v = "375" -> <<51, 55, 53>>
      [] v = "376" -> <<51, 55, 54>>
      [] v = "252" -> <<50, 53, 50>>
      [] v = "253" -> <<50, 53, 51>>
      [] v = "254" -> <<50, 53, 52>>
      [] v = "265" -> <<50, 54, 53>>
      [] v = "266" -> <<50, 54, 54>>
      [] v = "315" -> <<51, 49, 53>>
      [] v = "366" -> <<51, 54, 54>>
      [] v = "FOO" -> <<70, 79, 79>>

Verbs == Handlers \cup DOMAIN LogOnly \cup {"FOO"}

\* msgtype as the model names it; a verb the model has no name for has no
\* handler either, as long as it is no other attribute of MessageReceiver
\* ("server", "__init__", ..., or "default", for which getattr finds _default)
VerbName(t) == IF \E v \in Verbs : VerbText(v) = t
               THEN CHOOSE v \in Verbs : VerbText(v) = t
               ELSE "other"

\* ' '.join(tokens)
RECURSIVE Join(_)
Join(tokens) ==
    IF tokens = <<>> THEN <<>>
    ELSE IF Len(tokens) = 1 THEN tokens[1]
    ELSE tokens[1] \o <<32>> \o Join(Tail(tokens))

\* the index of the first parameter that starts with ":", 0 when there is none
RECURSIVE FirstColon(_, _)
FirstColon(parameters, i) ==
    IF i > Len(parameters) THEN 0
    ELSE IF parameters[i] # <<>> /\ parameters[i][1] = 58 THEN i
    ELSE FirstColon(parameters, i + 1)

\* a parser that takes the token after the ":" alone as the last parameter
Trailing_first(parameters) ==
    LET i == FirstColon(parameters, 1)
    IN  IF i = 0 THEN parameters
        ELSE SubSeq(parameters, 1, i - 1) \o <<Tail(parameters[i])>>

\* parameters[i:] = [' '.join([v[1:]] + parameters[i + 1:])]
Trailing(parameters) ==
    LET i == FirstColon(parameters, 1)
    IN  IF i = 0 THEN parameters
        ELSE SubSeq(parameters, 1, i - 1)
             \o <<Join(<<Tail(parameters[i])>> \o SubSeq(parameters, i + 1, Len(parameters)))>>

\* Server.read from text[1:].split(' ') to the parameters: ok is FALSE when an
\* unpacking raises ValueError outside a try statement
Parse(text) ==
    LET toks == Split(Tail(text), 32)
        bang == SplitMax(toks[1], 33, 2)
        at == SplitMax(bang[2], 64, 2)
    IN  IF Len(toks) < 2 THEN [ok |-> FALSE, msg |-> [NoMsg EXCEPT !.text = text]]
        ELSE IF Len(bang) # 2        \* except ValueError: host = None
        THEN [ok |-> TRUE,
              msg |-> [nick |-> toks[1], verb |-> VerbName(toks[2]),
                       params |-> Trailing(SubSeq(toks, 3, Len(toks))),
                       ident |-> <<>>, host |-> <<>>, text |-> text]]
        ELSE IF Len(at) # 2 THEN [ok |-> FALSE, msg |-> [NoMsg EXCEPT !.text = text]]
        ELSE [ok |-> TRUE,
              msg |-> [nick |-> bang[1], verb |-> VerbName(toks[2]),
                       params |-> Trailing(SubSeq(toks, 3, Len(toks))),
                       ident |-> <<at[1]>>, host |-> <<at[2]>>, text |-> text]]

\* Server.read: one turn of the loop on the text of a complete line that
\* starts with ":"; a ValueError of the splitting leaves read()
ReadText(text) ==
    IF Parse(text).ok THEN ReadLine(Parse(text).msg)
    ELSE /\ ReadTurn
         /\ nread < MaxLines
         /\ pc' = "failed"
         /\ nread' = nread + 1
         /\ last' = [NoStep EXCEPT !.op = "garbled", !.msg = Parse(text).msg]
         /\ UNCHANGED <<users, channels, uobj, cobj, ownuser, supported, connected,
                        welcomed, reconnect, username, host, message_queue, writer_task,
                        timers, keepalive_handler, callbacks, issued, futures, attempt,
                        could_parse_message, wire, submitted, track, autojoin, receiver>>

\* the lines of the server, given by their parts: the sender (with or without
\* ident and host), the verb, the middle parameters and the trailing one
Form(n, i, h, v, mid, trail) ==
    [nick |-> n, ident |-> i, host |-> h, verb |-> v, mid |-> mid, trail |-> trail]

RECURSIVE Spaced(_)
Spaced(ps) == IF ps = <<>> THEN <<>> ELSE <<32>> \o Head(ps) \o Spaced(Tail(ps))

\* ":nick!ident@host VERB p1 ... pn :trailing"
Raw(c) ==
    <<58>> \o c.nick
    \o (IF c.ident = <<>> THEN <<>> ELSE <<33>> \o c.ident[1] \o <<64>> \o c.host[1])
    \o <<32>> \o VerbText(c.verb) \o Spaced(c.mid) \o <<32, 58>> \o c.trail

nME == <<77, 101>>           \* "Me"
tI == <<105>>                \* "i"
tJ == <<106>>                \* "j"
tH == <<104>>                \* "h"
tG == <<103>>                \* "g"
tWords == <<104, 105, 32, 32, 58, 120>>    \* "hi  :x"

\* the server names itself without ident and host, and a user with both
ParseSenders == {<<nSrv, <<>>, <<>>>>, <<nMe, <<tI>>, <<tH>>>>, <<nME, <<tJ>>, <<tG>>>>,
                 <<nAl, <<tI>>, <<tG>>>>}
ParseBodies == {<<"001", <<nMe>>, <<119, 32, 120>>>>, <<"PRIVMSG", <<cC>>, tWords>>,
                <<"KICK", <<cC, nBo>>, <<>>>>, <<"QUIT", <<>>, <<113, 32>>>>}
Forms == {Form(s[1], s[2], s[3], b[1], b[2], b[3]) : s \in ParseSenders, b \in ParseBodies}

ParseNext ==
    \/ \E c \in Forms : ReadText(Raw(c))
    \/ DrainWrite
    \/ DrainWake

ParseSpec == RegInit /\ [][ParseNext]_vars
----------------------------------------------------------------------------
(* The capability table under 005 replies: the session is connected as in  *)
(* RegInit and the server sends replies made of the tokens of SupTokens,    *)
(* each followed by its trailing text.                                     *)

kCHANTYPES == <<67, 72, 65, 78, 84, 89, 80, 69, 83>>
kNAMESX == <<78, 65, 77, 69, 83, 88>>
kK == <<75>>                 \* "K"
sSupportedTrail == <<97, 114, 101, 32, 115, 117, 112, 112, 111, 114, 116, 101, 100>>

\* a token by its key and its value (<<>> when it has none), with the value
\* Python gives it
Tok(key, val, expect) == [key |-> key, val |-> val, expect |-> expect]
tokCHANTYPES == Tok(kCHANTYPES, <<<<35>>>>, StrVal(<<35>>))               \* CHANTYPES=#
tokNAMESX == Tok(kNAMESX, <<>>, TrueVal)                                  \* NAMESX
SupTokens ==
    {tokCHANTYPES, tokNAMESX,
     Tok(kK, <<<<49, 50>>>>, IntVal(12)),                                  \* K=12
     Tok(kK, <<<<49, 46, 53>>>>, FloatVal(<<49, 46, 53>>)),                      \* K=1.5
     Tok(kK, <<<<>>>>, StrVal(<<>>)),                                      \* K=
     Tok(kNAMESX, <<<<45, 51>>>>, IntVal(-3))}                            \* NAMESX=-3

TokText(tok) == tok.key \o (IF tok.val = <<>> THEN <<>> ELSE <<61>> \o tok.val[1])

\* the token lists of a reply
SupLists == {<<>>} \cup {<<a>> : a \in SupTokens}
            \cup {<<a, b>> : a \in SupTokens, b \in SupTokens}

\* the parameters of the 005 reply that carries the token list
SupParams(ts) == <<nMe>> \o [i \in 1..Len(ts) |-> TokText(ts[i])] \o <<sSupportedTrail>>

\* the 005 handler writes nothing: the drain loop stays blocked on its queue
SupNext == \E ts \in SupLists : ReadLine(Msg(nSrv, "005", SupParams(ts)))

SupSpec == RegInit /\ [][SupNext]_vars
----------------------------------------------------------------------------
(* Server.read from the data of one readline(): the session is connected   *)
(* as in RegInit, other code registers a callback for PRIVMSG, and the      *)
(* server sends complete lines, two of them with a sender that cannot be   *)
(* split, and data that is cut short.                                      *)

sCRLF == <<13, 10>>

\* a read loop that takes the line feed alone for the end of a line
Terminated_lf(data) == data # <<>> /\ data[Len(data)] = 10

\* data[-2:] == b'\r\n'
Terminated(data) == Len(data) >= 2 /\ SubSeq(data, Len(data) - 1, Len(data)) = sCRLF

\* Server.read: one turn of the loop on the data that readline() returned
ReadData(data) ==
    IF ~Terminated(data) THEN AbortRead("partial", data)
    ELSE LET text == SubSeq(data, 1, Len(data) - 2)
         IN  IF StartsWith(text, <<58>>) THEN ReadText(text) ELSE ReadPlain(text)

sWelcome == Raw(Form(nSrv, <<>>, <<>>, "001", <<nMe>>, <<119>>))         \* ":s 001 me :w"
sPrivmsg == Raw(Form(nAl, <<>>, <<>>, "PRIVMSG", <<cC>>, tI))            \* ":al PRIVMSG #c :i"
sPingS == sPINGverb \o <<32, 58>> \o nSrv                                 \* "PING :s"

sBare == <<58>> \o nAl                                                    \* ":al"
sNoAt == <<58>> \o nAl \o <<33>> \o Tail(sPrivmsg)                     \* ":al!al PRIVMSG #c :i"

DataComplete == {sWelcome \o sCRLF, sPrivmsg \o sCRLF, sPingS \o sCRLF,
                 sBare \o sCRLF, sNoAt \o sCRLF}
DataShort == {<<>>, sPrivmsg, sPrivmsg \o <<10>>, sPrivmsg \o <<13>>, sPingS, sPingS \o <<10>>}
DataSent == DataComplete \cup DataShort

DataNext ==
    \/ \E data \in DataSent : ReadData(data)
    \/ Cardinality(DOMAIN issued) < MaxCallbacks /\ AddCallback(1, {"PRIVMSG"})
    \/ DrainWrite
    \/ DrainWake

DataSpec == RegInit /\ [][DataNext]_vars
----------------------------------------------------------------------------
(* Nickname collisions: the session is connected as in RegInit and the     *)
(* server answers with 433 replies and with the 001.                       *)

MaxSuffix == 2        \* the largest suffix of a nickname the server rejects

sDigits09 == <<48, 57>>                                    \* "09"
nMeX == nMe \o <<120>>                                     \* "mex"

\* the nicknames the server rejects: those the session asks for, one with a
\* leading zero, one of another user, one with a suffix that is no number,
\* one in another case
Rejected ==
    {nMe \o (IF n = 0 THEN <<>> ELSE DigitsOf(n)) : n \in 0..MaxSuffix}
        \cup {nMe \o sDigits09, nAl, nMeX, nME}

NickLines ==
    {Msg(nSrv, "433", <<<<42>>, r, <<>>>>) : r \in Rejected}
        \cup {Msg(nSrv, "001", <<nMe, <<>>>>)}

NickNext ==
    \/ \E msg \in NickLines : ReadLine(msg)
    \/ DrainWrite
    \/ DrainWake

NickSpec == RegInit /\ [][NickNext]_vars
----------------------------------------------------------------------------
(* The welcome: the session is connected with any of the configured lists  *)
(* of autojoin channels, its registration lines are written, and the       *)
(* server rejects the nickname and sends the 001; the keepalive            *)
(* timer fires when it is pending.  The lines write() enqueued are         *)
(* recorded.                                                               *)

nMe1 == nMe \o <<49>>        \* "me1"

AutojoinLists == {<<>>, <<cC>>, <<cC, cD>>, <<cD, cC>>}

WelcomeLines ==
    {Msg(nSrv, "001", <<nMe, <<>>>>), Msg(nSrv, "001", <<nMe1, <<>>>>),
     Msg(nSrv, "433", <<<<42>>, nMe, <<>>>>)}

WelcomeInit ==
    /\ users = EmptyDict /\ channels = EmptyDict
    /\ uobj = EmptyDict /\ cobj = EmptyDict
    /\ ownuser = <<>> /\ supported = EmptyDict
    /\ connected = TRUE /\ welcomed = FALSE /\ reconnect = TRUE
    /\ username = OriginalUsername /\ host = <<>>
    /\ message_queue = <<>> /\ writer_task = "get"
    /\ timers = {} /\ keepalive_handler = <<>>
    /\ callbacks = {} /\ issued = EmptyDict /\ futures = EmptyDict
    /\ pc = "reading" /\ attempt = 0
    /\ could_parse_message = <<>> /\ nread = 0
    /\ wire = <<>> /\ submitted = <<>> /\ track = TRUE
    /\ autojoin \in AutojoinLists
    /\ receiver = "Server"
    /\ last = NoStep

WelcomeNext ==
    \/ \E msg \in WelcomeLines : ReadLine(msg)
    \/ \E t \in 1..MaxTimers : Keepalive(t)
    \/ DrainWrite
    \/ DrainWake

WelcomeSpec == WelcomeInit /\ [][WelcomeNext]_vars
----------------------------------------------------------------------------
(* The keepalive timer: the session is connected as in RegInit, the server *)
(* welcomes it once, pings it, falls silent or closes the stream, and the  *)
(* timer fires when it is pending.                                         *)

\* the server sends the 001 once on a connection
WelcomesOnce(msg) == msg.verb = "001" => ~welcomed

TimerLines == {Msg(nSrv, "001", <<nMe, <<>>>>)}

TimerNext ==
    \/ \E msg \in TimerLines : WelcomesOnce(msg) /\ ReadLine(msg)
    \/ ReadPlain(sPINGverb \o <<32, 58>> \o nSrv)
    \/ ReadTimeout
    \/ ReadPartial
    \/ \E t \in 1..MaxTimers : Keepalive(t)
    \/ DrainWrite
    \/ DrainWake

TimerSpec == RegInit /\ [][TimerNext]_vars
----------------------------------------------------------------------------
(* The outbound senders: the session is connected as in RegInit, the       *)
(* server welcomes it and confirms its JOIN and NICK requests, and the     *)
(* tasks of commands call write, msg, notice, join, part, nick, user and   *)
(* who between the lines.                                                  *)

tHi == <<104, 105>>          \* "hi"
sAWAY == <<65, 87, 65, 89>>  \* "AWAY"

Senders == {"write", "msg", "notice", "join", "part", "nick", "user", "who"}

\* one call of a sender by the task of a command
Send(f) ==
    /\ pc = "reading"
    /\ LET s1 == CASE f = "write" -> write(Session, sAWAY)
                   [] f = "msg" -> msg_to(Session, cC, tHi)
                   [] f = "notice" -> notice(Session, nAl, tHi)
                   [] f = "join" -> join(Session, cD)
                   [] f = "part" -> part(Session, cC)
                   [] f = "nick" -> nick(Session, nBo)
                   [] f = "user" -> user(Session, Ident)
                   [] f = "who" -> who(Session, cC)
       IN  /\ Bounded(s1)
           /\ Commit(s1)
    /\ last' = [NoStep EXCEPT !.op = "send", !.msg = [NoMsg EXCEPT !.verb = f]]
    /\ UNCHANGED <<reconnect, callbacks, issued, futures, pc, attempt, could_parse_message,
                   nread, wire>>

SendLines ==
    {Msg(nSrv, "001", <<nMe, <<>>>>), Msg(nMe, "JOIN", <<cC>>), Msg(nMe, "JOIN", <<cD>>),
     Msg(nMe, "NICK", <<nBo>>), Msg(nBo, "JOIN", <<cD>>)}

\* the drain loop is left out: the lines stay in the queue
SendNext ==
    \/ \E m \in SendLines : ReadLine(m)
    \/ \E f \in Senders : Send(f)

SendSpec == RegInit /\ [][SendNext]_vars
----------------------------------------------------------------------------
(* The session from its construction: the caller connects once, the server *)
(* welcomes the session and confirms its JOIN, pings it or falls silent,    *)
(* the keepalive timer fires, and a task started by a command writes.      *)

sHi == <<80, 82, 73, 86, 77, 83, 71, 32, 35, 99, 32, 58, 104, 105>>

LoopLines == {Msg(nSrv, "001", <<nMe, <<>>>>), Msg(nMe, "JOIN", <<cC>>)}
LoopPlain == {sPINGverb \o <<32, 58>> \o nSrv, sPINGverb}
LoopWrites == {sHi}

\* the state Server.__init__ leaves
LoopInit ==
    /\ users = EmptyDict /\ channels = EmptyDict
    /\ uobj = EmptyDict /\ cobj = EmptyDict
    /\ ownuser = <<>> /\ supported = EmptyDict
    /\ connected = FALSE /\ welcomed = FALSE /\ reconnect = TRUE
    /\ username = OriginalUsername /\ host = <<>>
    /\ message_queue = <<>> /\ writer_task = "none"
    /\ timers = {} /\ keepalive_handler = <<>>
    /\ callbacks = {} /\ issued = EmptyDict /\ futures = EmptyDict
    /\ pc = "idle" /\ attempt = 0
    /\ could_parse_message = <<>> /\ nread = 0
    /\ wire = <<>> /\ submitted = <<>> /\ track = TRUE
    /\ autojoin = Autojoin
    /\ receiver = "Server"
    /\ last = NoStep

ReadStep ==
    \/ \E msg \in LoopLines : ReadLine(msg)
    \/ \E text \in LoopPlain : ReadPlain(text)
    \/ ReadTimeout
    \/ ReadPartial

LoopNext ==
    \/ Connect
    \/ ConnectTimeout
    \/ ConnectOk
    \/ ReadStep
    \/ \E t \in 1..MaxTimers : Keepalive(t)
    \/ \E line \in LoopWrites : ExternalWrite(line)
    \/ DrainWrite
    \/ DrainWake

LoopSpec == LoopInit /\ [][LoopNext]_vars

\* what the event loop guarantees: a connection attempt ends, a read ends (by
\* a line or by its timeout), a pending timer fires, and the drain loop runs
FairLoopSpec ==
    /\ LoopSpec
    /\ WF_vars(ConnectTimeout \/ ConnectOk)
    /\ WF_vars(ReadStep)
    /\ WF_vars(\E t \in 1..MaxTimers : Keepalive(t))
    /\ WF_vars(DrainWrite)
    /\ WF_vars(DrainWake)

----------------------------------------------------------------------------
(* Server.quit: the session is connected as in WelcomeInit, the server     *)
(* welcomes it, the keepalive timer fires, the drain loop runs, and the    *)
(* task of a command calls quit() once.                                    *)

sQuitting == <<32, 113, 117, 105, 116, 116, 105, 110, 103, 46, 46, 46>>  \* " quitting..."

\* self.quit_msg as __init__ sets it when none is configured
QuitMsg == OriginalUsername \o sQuitting

\* Server.quit, its first statement
quit(s) == write(s, sQUIT \o QuitMsg)

\* Server.quit called by the task of a command: the line is enqueued, the
\* stream is closed and reconnect is cleared, all in one step of the task; an
\* exception of write() leaves quit() before the other two statements
Quit ==
    /\ pc = "reading"
    /\ LET s1 == quit(Session)
       IN  /\ Bounded(s1)
           /\ Commit(s1)
           /\ pc' = IF s1.exc THEN pc ELSE "quit"
           /\ reconnect' = IF s1.exc THEN reconnect ELSE FALSE
    /\ last' = [NoStep EXCEPT !.op = "quit"]
    /\ UNCHANGED <<callbacks, issued, futures, attempt, could_parse_message, nread, wire>>

\* handle_write resumes with a line after quit() closed the stream: the closed
\* transport drops the data, or sends them behind data it still held
DrainClosed ==
    /\ pc = "quit"
    /\ writer_task = "get"
    /\ message_queue # <<>>
    /\ message_queue' = Tail(message_queue)
    /\ wire' \in {wire, Append(wire, Head(message_queue))}
    /\ writer_task' = "sleep"
    /\ last' = [NoStep EXCEPT !.op = "drain"]
    /\ UNCHANGED <<users, channels, uobj, cobj, ownuser, supported, connected, welcomed,
                   reconnect, username, host, timers, keepalive_handler, callbacks, issued,
                   futures, pc, attempt, could_parse_message, nread, submitted, track,
                   autojoin, receiver>>

\* the closed stream ends: readline() returns no data, the loop is left by the
\* break and reset_connection() is called.  The drain loop that the queue has
\* woken runs before the read task, which the loss of the connection wakes.
ReadEof ==
    /\ pc = "quit"
    /\ writer_task = "get" => message_queue = <<>>
    /\ LET s1 == reset_connection(Session)
       IN  /\ Commit(s1)
           /\ pc' = IF s1.exc THEN "failed" ELSE "closed"
    /\ last' = [NoStep EXCEPT !.op = "eof"]
    /\ UNCHANGED <<reconnect, callbacks, issued, futures, attempt, could_parse_message, nread,
                   wire>>

QuitNext ==
    \/ ReadLine(Msg(nSrv, "001", <<nMe, <<>>>>))
    \/ \E t \in 1..MaxTimers : Keepalive(t)
    \/ pc = "reading" /\ DrainWrite
    \/ DrainWake
    \/ Quit
    \/ DrainClosed
    \/ ReadEof

QuitSpec == WelcomeInit /\ [][QuitNext]_vars
----------------------------------------------------------------------------
(* Dispatch and the callbacks: the session is connected as in RegInit, the *)
(* server sends any of CbLines, and tasks register callbacks and wait for  *)
(* replies with on().                                                      *)

sFOO == <<70, 79, 79>>

CbLines ==
    {Msg(nSrv, "001", <<nMe, <<>>>>),
     Msg(nMe, "JOIN", <<cC>>),
     Msg(nAl, "JOIN", <<cC>>),
     Msg(nSrv, "FOO", <<>>)}
CbFlags == {"JOIN", "FOO"}

CbNext ==
    \/ \E msg \in CbLines : ReadLine(msg)
    \/ \E flag \in CbFlags : OnRegister(flag)
    \/ \E f \in 1..MaxWaiters : OnResume(f)
    \/ \E flag \in CbFlags :
          Cardinality(DOMAIN issued) < MaxCallbacks /\ AddCallback(1, {flag})
    \/ DrainWrite
    \/ DrainWake

CbSpec == RegInit /\ [][CbNext]_vars

----------------------------------------------------------------------------
(* The callback registry under other code: the session is connected as in  *)
(* RegInit, callbacks are registered for PRIVMSG alone or for PRIVMSG and   *)
(* NOTICE and unregistered by the keys add_callback returned, and the       *)
(* server sends lines of these verbs and of a verb without handler.        *)

MaxTokens == 2        \* calls of add_callback by other code
MaxHandlers == 2      \* the callbacks other code registers

TokFlagSets == {{"PRIVMSG"}, {"PRIVMSG", "NOTICE"}}
TokLines == {Msg(nAl, "PRIVMSG", <<cC, tI>>), Msg(nAl, "NOTICE", <<cC, tI>>),
             Msg(nSrv, "FOO", <<>>)}

TokNext ==
    \/ \E msg \in TokLines : ReadLine(msg)
    \/ \E h \in 1..MaxHandlers, flags \in TokFlagSets :
          Cardinality(DOMAIN issued) < MaxTokens /\ AddCallback(h, flags)
    \/ \E t \in 1..MaxTokens : RemoveCallback(t)

TokSpec == RegInit /\ [][TokNext]_vars
----------------------------------------------------------------------------
(* Callbacks that change the registry while they are called: the session   *)
(* is connected as in RegInit, other code registers callbacks for PRIVMSG, *)
(* some of which unregister themselves when they are called, and the       *)
(* server sends lines.                                                     *)

\* a callback of other code that calls remove_callback with the keys its own
\* add_callback returned
Once(h) == [kind |-> "once", id |-> h]

\* Server.add_callback called by other code with such a callback
AddOnce(h, flags) ==
    /\ pc = "reading"
    /\ LET t == Cardinality(DOMAIN issued) + 1
       IN  /\ callbacks' = add_callback(callbacks, TokenObj(t), Once(h), flags)
           /\ issued' = [i \in (DOMAIN issued) \cup {t} |->
                           IF i = t THEN [handler |-> h, flags |-> flags, live |-> TRUE]
                           ELSE issued[i]]
           /\ last' = [NoStep EXCEPT !.op = "add", !.sender = t]
    /\ UNCHANGED <<futures>>
    /\ UNCHANGED Still

\* Server.read: one turn of the loop on a line for whose verb such a callback
\* is registered, when run_callbacks is called.  The for loop takes the keys
\* in the order o of the set; the first callback that unregisters itself
\* changes the size of the set, and the next step of the iteration raises
\* RuntimeError, which leaves run_callbacks and read().
ReadLineOnce(msg) ==
    /\ ReadTurn
    /\ nread < MaxLines
    /\ LET known == CIcontains(users, msg.nick)
           sender == IF known THEN CIget(users, msg.nick) ELSE NextUid(Session)
           s1 == SetIdentity(IF known THEN Session ELSE User(Session, msg.nick),
                             sender, msg.ident, msg.host)
       IN  /\ ~s1.oom
           /\ \E r \in Receiver(s1, msg.verb, sender, msg.params) :
                LET cpm == AfterTry(r.ret, could_parse_message)
                    keys == {k \in callbacks : k.flag = msg.verb}
                IN  /\ ~r.s.oom
                    /\ Bounded(r.s)
                    /\ RunsCallbacks(cpm)
                    /\ Commit(r.s)
                    /\ could_parse_message' = cpm
                    /\ pc' = "failed"
                    /\ nread' = nread + 1
                    /\ \E o \in Orders(keys) :
                         /\ \E i \in DOMAIN o : o[i].cb.kind = "once"
                         /\ LET n == Min({i \in DOMAIN o : o[i].cb.kind = "once"})
                                called == {o[i] : i \in 1..n}
                                t == o[n].obj.id
                            IN  /\ callbacks' = {k \in callbacks : k.obj # o[n].obj}
                                /\ issued' = [issued EXCEPT ![t].live = FALSE]
                                /\ futures' = run_callbacks(futures, called, r.ret = "True")
                                /\ last' = [op |-> "line", msg |-> msg, sender |-> sender,
                                            own |-> (ownuser = <<sender>>), ret |-> r.ret,
                                            ran |-> TRUE, invoked |-> called,
                                            order |-> SubSeq(o, 1, n),
                                            nusers |-> Cardinality(DOMAIN users),
                                            who |-> [username |-> s1.uobj[sender].username,
                                                     ident |-> s1.uobj[sender].ident,
                                                     hostname |-> s1.uobj[sender].hostname]]
                    /\ UNCHANGED <<reconnect, attempt, wire>>

OnceLines == {Msg(nSrv, "001", <<nMe, <<>>>>), Msg(nAl, "PRIVMSG", <<cC, tI>>),
              Msg(nAl, "NOTICE", <<cC, tI>>), Msg(nSrv, "FOO", <<>>)}

OnceNext ==
    \/ \E msg \in OnceLines :
          /\ \A k \in callbacks : k.flag = msg.verb => k.cb.kind # "once"
          /\ ReadLine(msg)
    \/ \E msg \in OnceLines : ReadLineOnce(msg)
    \/ \E h \in 1..MaxHandlers :
          Cardinality(DOMAIN issued) < MaxTokens /\ AddCallback(h, {"PRIVMSG"})
    \/ \E h \in 1..MaxHandlers :
          Cardinality(DOMAIN issued) < MaxTokens /\ AddOnce(h, {"PRIVMSG"})

OnceSpec == RegInit /\ [][OnceNext]_vars
----------------------------------------------------------------------------
(* Verbs that name other attributes of the receiver: the session is        *)
(* connected as in RegInit, other code has a callback registered for such  *)
(* verbs, and the server sends them among lines of reply handlers.         *)

AttrLines ==
    {Msg(nSrv, "001", <<nMe, <<>>>>), Msg(nMe, "JOIN", <<cC>>), Msg(nSrv, "FOO", <<>>),
     Msg(nAl, "__init__", <<>>), Msg(nAl, "__init__", <<cC>>),
     Msg(nSrv, "server", <<>>), Msg(nSrv, "__call__", <<cC>>),
     Msg(nSrv, "default", <<cC>>), Msg(nSrv, "_default", <<>>)}

AttrNext ==
    \/ \E msg \in AttrLines : ReadLine(msg)
    \/ Cardinality(DOMAIN issued) < MaxCallbacks /\ AddCallback(1, {"__init__", "default"})

AttrSpec == RegInit /\ [][AttrNext]_vars
----------------------------------------------------------------------------
(* Server.write as a function of the line and of the advertised TOPICLEN:  *)
(* the session is connected as in RegInit, a 005 reply has or has not set  *)
(* TOPICLEN, and lines are written.                                        *)

RECURSIVE Lines(_, _)
Lines(alphabet, n) ==
    IF n = 0 THEN {<<>>}
    ELSE Lines(alphabet, n - 1)
         \cup {<<c>> \o l : c \in alphabet, l \in Lines(alphabet, n - 1)}

Repeat(c, n) == [i \in 1..n |-> c]

\* short lines with and without a control character, and lines around the
\* default limit
WLines ==
    Lines({10, 97}, MaxLen)
    \cup {Repeat(97, DefaultMaxLength), Repeat(97, DefaultMaxLength + 1),
          Repeat(97, DefaultMaxLength - 1) \o <<10>>}

\* the values a 005 reply can give TOPICLEN: an integer, True, a string
WValues ==
    {IntVal(n) : n \in -1..MaxLimit} \cup {TrueVal, StrVal(<<120>>)}

WInit ==
    /\ users = EmptyDict /\ channels = EmptyDict
    /\ uobj = EmptyDict /\ cobj = EmptyDict
    /\ ownuser = <<>>
    /\ supported \in {EmptyDict} \cup {[k \in {kTOPICLEN} |-> v] : v \in WValues}
    /\ connected = TRUE /\ welcomed = FALSE /\ reconnect = TRUE
    /\ username = OriginalUsername /\ host = <<>>
    /\ message_queue = <<>> /\ writer_task = "get"
    /\ timers = {} /\ keepalive_handler = <<>>
    /\ callbacks = {} /\ issued = EmptyDict /\ futures = EmptyDict
    /\ pc = "reading" /\ attempt = 0
    /\ could_parse_message = <<>> /\ nread = 0
    /\ wire = <<>> /\ submitted = <<>> /\ track = FALSE
    /\ autojoin = Autojoin
    /\ receiver = "Server"
    /\ last = NoStep

\* one call of write() on the empty queue
WNext == message_queue = <<>> /\ \E line \in WLines : ExternalWrite(line)

WriteSpec == WInit /\ [][WNext]_vars

----------------------------------------------------------------------------
(* CaseInsensitiveDict on its own: a directory, held in users, under any   *)
(* sequence of d[k] = v, d[k], k in d and del d[k].  Its values are User    *)
(* objects that exist beside it.                                           *)

MaxVals == 2          \* the objects stored in the directory

kAt == <<64>>                \* "@"
kGrave == <<96>>             \* "`", 32 code points above "@" and no letter
nAB == <<97, 98>>            \* "ab"

\* keys with their case variants, and two keys that are not letters
DictKeys == {<<97>>, <<65>>, nAB, <<65, 98>>, <<97, 66>>, <<65, 66>>, kAt, kGrave}

DictInit ==
    /\ users = EmptyDict /\ channels = EmptyDict
    /\ uobj = [i \in 1..MaxVals |-> [username |-> <<96 + i>>, knownchannels |-> EmptyDict,
                                     ident |-> <<>>, hostname |-> <<>>]]
    /\ cobj = EmptyDict
    /\ ownuser = <<>> /\ supported = EmptyDict
    /\ connected = FALSE /\ welcomed = FALSE /\ reconnect = TRUE
    /\ username = OriginalUsername /\ host = <<>>
    /\ message_queue = <<>> /\ writer_task = "none"
    /\ timers = {} /\ keepalive_handler = <<>>
    /\ callbacks = {} /\ issued = EmptyDict /\ futures = EmptyDict
    /\ pc = "idle" /\ attempt = 0
    /\ could_parse_message = <<>> /\ nread = 0
    /\ wire = <<>> /\ submitted = <<>> /\ track = FALSE
    /\ autojoin = Autojoin
    /\ receiver = "Server"
    /\ last = NoStep

DictQuiet == <<channels, uobj, cobj, ownuser, supported, connected, welcomed, reconnect,
               username, host, message_queue, writer_task, timers, keepalive_handler,
               callbacks, issued, futures, pc, attempt, could_parse_message, nread, wire,
               submitted, track, autojoin, receiver>>

DictOp(op, k, v, ret) ==
    [NoStep EXCEPT !.op = op, !.msg = [NoMsg EXCEPT !.nick = k], !.sender = v, !.ret = ret]

\* d[k] = v
DictSetItem(k, v) ==
    /\ users' = CIset(users, k, v)
    /\ last' = DictOp("setitem", k, v, "None")
    /\ UNCHANGED DictQuiet

\* d[k]: the value, or a KeyError
DictGetItem(k) ==
    /\ last' = IF CIcontains(users, k) THEN DictOp("getitem", k, CIget(users, k), "value")
               ELSE DictOp("getitem", k, 0, "raised")
    /\ UNCHANGED users
    /\ UNCHANGED DictQuiet

\* k in d
DictContains(k) ==
    /\ last' = DictOp("contains", k, 0, IF CIcontains(users, k) THEN "True" ELSE "False")
    /\ UNCHANGED users
    /\ UNCHANGED DictQuiet

\* del d[k]: the entry is removed, or a KeyError
DictDelItem(k) ==
    /\ IF CIcontains(users, k)
       THEN users' = CIdel(users, k) /\ last' = DictOp("delitem", k, 0, "None")
       ELSE users' = users /\ last' = DictOp("delitem", k, 0, "raised")
    /\ UNCHANGED DictQuiet

DictNext ==
    \/ \E k \in DictKeys, v \in 1..MaxVals : DictSetItem(k, v)
    \/ \E k \in DictKeys : DictGetItem(k)
    \/ \E k \in DictKeys : DictContains(k)
    \/ \E k \in DictKeys : DictDelItem(k)

DictSpec == DictInit /\ [][DictNext]_vars
----------------------------------------------------------------------------
(* Claims about the registries.                                            *)

Members(c) == Values(cobj[c].users)
Known(u) == Values(uobj[u].knownchannels)
OwnIs(u) == ownuser = <<u>>
\* username in channel.users, channelname in user.knownchannels, username in server.users
InMemberRegistry(u, c) == CIcontains(cobj[c].users, uobj[u].username)
InKnownRegistry(c, u) == CIcontains(uobj[u].knownchannels, cobj[c].channelname)
InUserRegistry(u) == CIcontains(users, uobj[u].username)

\* C1: for every user in the user registry and every channel in the channel
\* registry, the user is in the channel's member registry if and only if the
\* channel is in the user's known-channel registry.
C1_Mirror ==
    \A u \in Values(users) : \A c \in Values(channels) :
        InMemberRegistry(u, c) <=> InKnownRegistry(c, u)

\* C2: once welcomed, a user is in the user registry if and only if it is a
\* member of a channel of the channel registry or it is the local user; the
\* local user is never removed from the registry.
C2_RegisteredIffMemberOrOwn ==
    welcomed =>
        \A u \in DOMAIN uobj :
            InUserRegistry(u) <=>
                ((\E c \in Values(channels) : InMemberRegistry(u, c)) \/ OwnIs(u))

\* what the last line was
LineWas(verb) == last.op = "line" /\ last.msg.verb = verb
Acted(verb) == LineWas(verb) /\ last.ret = "True"

\* the operands of the NICK line being processed in this step: the renamed
\* user is last'.sender, a user of the registry before the step
NickOld == Lower(uobj[last'.sender].username)
NickNew == Lower(last'.msg.params[1])

\* what C6 says of a step that renames user u from old to new
RenameEffect(u, old, new) ==
    /\ DOMAIN users' = ((DOMAIN users) \ {old}) \cup {new}
    /\ users'[new] = u
    /\ \A k \in (DOMAIN users) \ {old, new} : users'[k] = users[k]
    /\ channels' = channels
    /\ DOMAIN uobj' = DOMAIN uobj
    /\ DOMAIN cobj' = DOMAIN cobj
    /\ uobj'[u].knownchannels = uobj[u].knownchannels
    /\ \A v \in (DOMAIN uobj) \ {u} : uobj'[v] = uobj[v]
    /\ \A c \in DOMAIN cobj :
         IF c \in Known(u)
         THEN /\ DOMAIN cobj'[c].users = ((DOMAIN cobj[c].users) \ {old}) \cup {new}
              /\ cobj'[c].users[new] = u
              /\ \A k \in (DOMAIN cobj[c].users) \ {old, new} :
                    cobj'[c].users[k] = cobj[c].users[k]
              /\ Cardinality(DOMAIN cobj'[c].users) = Cardinality(DOMAIN cobj[c].users)
         ELSE cobj'[c] = cobj[c]

C7_Join ==
    [][LineWas("JOIN")' =>
        LET ch == Lower(last'.msg.params[1])
        IN  IF last'.own
            THEN /\ DOMAIN channels' = (DOMAIN channels) \cup {ch}
                 /\ channels'[ch] \notin DOMAIN cobj
                 /\ \A k \in (DOMAIN channels) \ {ch} : channels'[k] = channels[k]
                 /\ message_queue' =
                        Append(message_queue, sWHO \o last'.msg.params[1] \o sUHNFAR)
            ELSE channels' = channels]_vars

\* the local user has joined a channel: the channel is registered with the
\* local user in it and the WHO query for it is the last line enqueued
C7_Witness ==
    /\ Acted("JOIN") /\ last.own
    /\ CIcontains(channels, last.msg.params[1])
    /\ OwnIs(last.sender)
    /\ last.sender \in Members(CIget(channels, last.msg.params[1]))
    /\ message_queue # <<>>
    /\ message_queue[Len(message_queue)] = sWHO \o last.msg.params[1] \o sUHNFAR

\* the user a PART or KICK line names, and the channel it names
Leaver == IF last'.msg.verb = "PART" THEN last'.sender
          ELSE users[Lower(last'.msg.params[2])]
Left == channels[Lower(last'.msg.params[1])]
\* the line names a registered channel and a registered user
Resolves ==
    /\ Lower(last'.msg.params[1]) \in DOMAIN channels
    /\ last'.msg.verb = "KICK" => Lower(last'.msg.params[2]) \in DOMAIN users

----------------------------------------------------------------------------
(* Claims about the outbound queue, the read loop and on().                *)

IsPrefix(a, b) == Len(a) <= Len(b) /\ SubSeq(b, 1, Len(a)) = a
Contains(seq, x) == \E i \in 1..Len(seq) : seq[i] = x

\* C3: the lines the drain loop has written to the socket are a prefix of the
\* lines submitted through write() since the connection was opened, in the
\* same order.
C3_WireIsPrefix == IsPrefix(wire, submitted)

\* the socket has been written a line of a reply handler (the autojoin of
\* on_welcome), a line of the keepalive timer and a line of another task,
\* while a further line waits in the queue
C3_Witness ==
    /\ Contains(wire, sJOIN \o cC)
    /\ Contains(wire, sPING \o nSrv)
    /\ Contains(wire, sHi)
    /\ message_queue # <<>>

\* C4: when the reply handler of a line raises, the read loop goes on (the
\* next line can be read) and the callbacks registered for the verb of the
\* line are invoked, for every line, the first one of a connection included.
C4_FailureContained ==
    [][(last'.op = "line" /\ last'.ret = "raised")
         => /\ pc' = "reading"
            /\ last'.invoked = {k \in callbacks : k.flag = last'.msg.verb}]_vars

\* C5: after a read timeout the session is disconnected and, while reconnect
\* is enabled, it comes to a new connection attempt.
C5_ReconnectsAfterTimeout ==
    /\ [](last.op = "timeout" => ~connected)
    /\ (last.op = "timeout" /\ reconnect) ~> (pc = "connecting")

\* C10: a waiter of on(T) is resolved only by a line of type T that was
\* dispatched successfully, the first such line after the registration
\* resolves it, its callback is invoked at most once, and once its task has
\* resumed its registration is gone.
C10_ResolvedOnce ==
    [][\A f \in DOMAIN futures :
         LET hit == last'.op = "line" /\ last'.msg.verb = futures[f].flag
                    /\ last'.ret = "True"
         IN  /\ (futures[f].state = "pending" /\ futures'[f].state # "pending") => hit
             /\ (futures[f].state = "pending" /\ hit) => futures'[f].state = "woken"
             /\ futures'[f].calls <= 1
             /\ futures'[f].state = "done"
                  => Key("waiter", f, futures[f].flag) \notin callbacks']_vars

\* the line passed to the write() of this step, its escaped form and the limit
WLine == last'.msg.params[1]
Piece(c) == IF c < 32 THEN <<91>> \o Dec(c) \o <<93>> ELSE <<c>>
Escaped(line) == Concat([i \in 1..Len(line) |-> Piece(line[i])])
Limit == MaxLengthOf(supported)
Cut(line, n) == SubSeq(line, 1, n) \o <<32>> \o sMarker

\* C9 as stated: a line longer than the limit is enqueued cut to the limit
\* and followed by the marker, any other line is enqueued with its control
\* characters escaped and otherwise unchanged.
C9_WriteAsStated ==
    [][(last'.op = "write" /\ Limit.t = "int" /\ Limit.n >= 0) =>
        IF Len(WLine) > Limit.n
        THEN \/ message_queue' = Append(message_queue, Cut(WLine, Limit.n))
             \/ message_queue' = Append(message_queue, Cut(Escaped(WLine), Limit.n))
        ELSE message_queue' = Append(message_queue, Escaped(WLine))]_vars

\* C9: write() escapes the control characters of the line first; if the
\* escaped line is longer than the limit (an integer from 0, 300 by default)
\* the line enqueued is the escaped line cut to the limit, a space and the
\* marker, and otherwise it is the escaped line.
C9_Write ==
    [][(last'.op = "write" /\ Limit.t = "int" /\ Limit.n >= 0) =>
        IF Len(Escaped(WLine)) > Limit.n
        THEN message_queue' = Append(message_queue, Cut(Escaped(WLine), Limit.n))
        ELSE message_queue' = Append(message_queue, Escaped(WLine))]_vars

\* a line within the limit has been cut because its escaped form is longer
C9_Witness ==
    /\ last.op = "write"
    /\ MaxLengthOf(supported).t = "int"
    /\ Len(last.msg.params[1]) <= MaxLengthOf(supported).n
    /\ MaxLengthOf(supported).n >= 0
    /\ Len(Escaped(last.msg.params[1])) > MaxLengthOf(supported).n
    /\ message_queue # <<>>
    /\ message_queue[Len(message_queue)] =
          Cut(Escaped(last.msg.params[1]), MaxLengthOf(supported).n)

----------------------------------------------------------------------------
(* Claims about the case-insensitive directory.                            *)

IsLetter(c) == (c >= 65 /\ c <= 90) \/ (c >= 97 /\ c <= 122)
\* the two keys differ at most in the case of their letters
SameFold(a, b) ==
    /\ Len(a) = Len(b)
    /\ \A i \in 1..Len(a) :
         a[i] = b[i] \/ (IsLetter(a[i]) /\ IsLetter(b[i]) /\ (a[i] - b[i]) \in {32, -32})
\* the entries of d under a case variant of k
Variants(d, k) == {x \in DOMAIN d : SameFold(x, k)}

\* C11: an insert under a key is seen by lookup and membership test under
\* every case variant of the key and replaces the entry of every variant, a
\* delete under a key removes the entry of every variant, entries of other
\* keys are untouched, and the directory never holds two entries whose keys
\* are case variants of each other.
C11_CaseInsensitive ==
    /\ [](\A a \in DOMAIN users : Variants(users, a) = {a})
    /\ [][/\ last'.op = "setitem" =>
               /\ \A k \in DictKeys : SameFold(k, last'.msg.nick) =>
                      CIcontains(users', k) /\ CIget(users', k) = last'.sender
               /\ Cardinality(Variants(users', last'.msg.nick)) = 1
               /\ \A x \in DOMAIN users : ~SameFold(x, last'.msg.nick) =>
                      x \in DOMAIN users' /\ users'[x] = users[x]
          /\ last'.op = "delitem" =>
               /\ last'.ret = "raised" <=> Variants(users, last'.msg.nick) = {}
               /\ \A k \in DictKeys : SameFold(k, last'.msg.nick) => ~CIcontains(users', k)
               /\ \A x \in DOMAIN users : ~SameFold(x, last'.msg.nick) =>
                      x \in DOMAIN users' /\ users'[x] = users[x]
          /\ last'.op = "getitem" =>
               IF Variants(users, last'.msg.nick) = {} THEN last'.ret = "raised"
               ELSE \A x \in Variants(users, last'.msg.nick) : last'.sender = users[x]
          /\ last'.op = "contains" =>
               (last'.ret = "True" <=> Variants(users, last'.msg.nick) # {})]_vars

\* a lookup under "AB" has returned the value of the entry the directory
\* holds under "ab", beside an entry under "@"
C11_Witness ==
    /\ last.op = "getitem" /\ last.msg.nick = <<65, 66>> /\ last.ret = "value"
    /\ last.sender = 2
    /\ DOMAIN users = {nAB, kAt}

----------------------------------------------------------------------------
(* Claims about the parser.                                                *)

\* C12: a line ":nick!ident@host VERB p1 ... pn :trailing" is dispatched as
\* verb VERB with the parameters p1 ... pn and the trailing text (without its
\* ":", its tokens joined by single spaces) and with the user of that nickname
\* as the sender (a new user named nick unless one is registered under it),
\* whose ident and host are those of the line; a sender without "!" has
\* neither.
C12_Parse ==
    [][\A c \in Forms : last'.msg.text = Raw(c) =>
         /\ last'.op = "line"
         /\ last'.msg.verb = c.verb
         /\ last'.msg.params = c.mid \o <<c.trail>>
         /\ Lower(last'.who.username) = Lower(c.nick)
         /\ ~CIcontains(users, c.nick) => last'.who.username = c.nick
         /\ last'.who.ident = c.ident
         /\ last'.who.hostname = c.host]_vars

\* a registered user has sent a PRIVMSG under a case variant of its nickname,
\* with an ident and a host, and with a trailing parameter of several tokens
C12_Witness ==
    /\ Acted("PRIVMSG")
    /\ last.msg.params = <<cC, tWords>>
    /\ last.sender \in Values(users)
    /\ last.who = [username |-> nMe, ident |-> <<tJ>>, hostname |-> <<tG>>]
    /\ last.msg.nick = nME

----------------------------------------------------------------------------
(* Claims about the capability table.                                      *)

SupKeys(ts) == {ts[i].key : i \in 1..Len(ts)}
\* the last token of the list with the key
LastWith(ts, k) == ts[CHOOSE i \in 1..Len(ts) :
                        ts[i].key = k /\ \A j \in (i + 1)..Len(ts) : ts[j].key # k]

----------------------------------------------------------------------------
(* Claims about connect().                                                 *)

\* C14: connect() makes at most max_reconnects attempts, and an attempt ends
\* by the connection or by its timeout; when the last of them times out, and
\* only then, the session is terminated: reconnect is disabled for good,
\* connected is false, no drain loop is started, no line is submitted or
\* written and no line is read.
C14_GivesUp ==
    /\ [](attempt + 1 <= MaxReconnects)
    /\ [](pc = "gaveup" =>
            /\ ~reconnect /\ ~connected /\ writer_task = "none"
            /\ submitted = <<>> /\ wire = <<>> /\ message_queue = <<>> /\ nread = 0)
    /\ [][/\ pc = "gaveup" => pc' = "gaveup"
          /\ (pc' = "gaveup" /\ pc # "gaveup") =>
                (last'.op = "connect_timeout" /\ attempt + 1 = MaxReconnects)
          /\ (last'.op = "connect_timeout" /\ attempt + 1 = MaxReconnects) =>
                pc' = "gaveup"
          /\ (last'.op = "connect_timeout" /\ attempt + 1 < MaxReconnects) =>
                (pc' = "connecting" /\ attempt' = attempt + 1 /\ reconnect' = reconnect)
          /\ pc = "connecting" => last'.op \in {"connected", "connect_timeout"}]_vars

\* every attempt has timed out and connect() has returned
C14_Witness ==
    /\ pc = "gaveup" /\ last.op = "connect_timeout"
    /\ attempt = MaxReconnects - 1 /\ ~reconnect

----------------------------------------------------------------------------
(* Claims about the callback registry.                                     *)

\* the keys add_callback returned as number t
TokKeys(t) == KeysOf(TokenObj(t), Handler(issued[t].handler), issued[t].flags)
\* the registrations of other code
Plain(cbs) == {k \in cbs : k.cb.kind = "plain"}

\* C15: the keys add_callback returns are registered until remove_callback is
\* called with them; the call removes these keys and no key returned by
\* another call, also one for the same callback and flags; a second call with
\* the same keys removes nothing and raises; and a dispatch invokes a callback
\* only through keys that are still registered.
C15_Token ==
    /\ [](\A t \in DOMAIN issued :
            IF issued[t].live THEN TokKeys(t) \subseteq callbacks
            ELSE TokKeys(t) \cap callbacks = {})
    /\ [][/\ last'.op = "add" =>
               /\ last'.sender \notin DOMAIN issued
               /\ \A t \in DOMAIN issued : issued'[t] = issued[t]
               /\ callbacks \subseteq callbacks'
          /\ last'.op = "remove" =>
               /\ last'.ret = IF issued[last'.sender].live THEN "None" ELSE "raised"
               /\ callbacks' = callbacks \ TokKeys(last'.sender)
               /\ ~issued'[last'.sender].live
               /\ \A t \in (DOMAIN issued) \ {last'.sender} : issued'[t] = issued[t]
          /\ last'.op = "line" =>
               /\ Plain(last'.invoked) \subseteq
                     UNION {TokKeys(t) : t \in {u \in DOMAIN issued : issued[u].live}}
               /\ last'.ran =>
                     \A t \in DOMAIN issued :
                        (issued[t].live /\ last'.msg.verb \in issued[t].flags) =>
                           \E k \in last'.invoked : k.obj = TokenObj(t)]_vars

\* a callback was registered twice for the same flags, the first keys have
\* been removed, and a PRIVMSG has invoked it through the second keys only
C15_Witness ==
    /\ Acted("PRIVMSG")
    /\ DOMAIN issued = {1, 2}
    /\ issued[1].handler = issued[2].handler /\ issued[1].flags = issued[2].flags
    /\ ~issued[1].live /\ issued[2].live
    /\ Plain(last.invoked) = {KeyOf(TokenObj(2), Handler(issued[2].handler), "PRIVMSG",
                                    issued[2].flags)}

\* C16: a line of a known verb whose handler returned invokes every callback
\* registered for the verb once, in the order of their registrations.
C16_RegistrationOrder ==
    [][(last'.op = "line" /\ last'.ret = "True") =>
         /\ {last'.order[i] : i \in DOMAIN last'.order}
               = {k \in Plain(callbacks) : k.flag = last'.msg.verb}
         /\ \A i, j \in DOMAIN last'.order :
               i < j => last'.order[i].obj.id < last'.order[j].obj.id]_vars

----------------------------------------------------------------------------
(* Claims about the lines without a sender and the end of the read loop.   *)

\* the text of the line without a sender that this step has read
PlainText == last'.msg.params[1]

\* C17: a line without a sender that is "PING" or begins with "PING" enqueues
\* one PONG line with the token of the line, and the read loop goes on; any
\* other line without a sender enqueues nothing.
C17_Pong ==
    [][last'.op = "plain" =>
         IF StartsWith(PlainText, sPINGverb)
         THEN /\ pc' = "reading"
              /\ Len(message_queue') = Len(message_queue) + 1
              /\ SubSeq(message_queue', 1, Len(message_queue)) = message_queue
              /\ StartsWith(message_queue'[Len(message_queue')], sPONG)
              /\ \A tok \in {<<58>> \o nSrv} :
                    PlainText = sPINGverb \o <<32>> \o tok
                       => message_queue'[Len(message_queue')] = sPONG \o tok
         ELSE message_queue' = message_queue]_vars

\* the read loop has ended
ReadEnded == pc \in {"closed", "failed"}

\* C18: once the read loop has ended, by a timeout, a partial read or a
\* failure while a line was processed, the session is torn down: connected
\* and welcomed are false, the registries and the capability table are empty,
\* the drain loop is cancelled and no keepalive timer is pending.
C18_TornDown ==
    ReadEnded =>
        /\ ~connected /\ ~welcomed
        /\ users = EmptyDict /\ channels = EmptyDict /\ supported = EmptyDict
        /\ writer_task = "none"
        /\ timers = {}

\* C19: data that does not end with "\r\n" (no data at all included) ends the
\* read loop and calls the teardown; it is neither split nor dispatched, no
\* PONG answers it and no callback is run for it; what is split and
\* dispatched is a complete line.
C19_PartialRead ==
    [][/\ last'.op \in {"line", "garbled"} => (last'.msg.text \o sCRLF) \in DataComplete
       /\ last'.op = "plain" => (last'.msg.params[1] \o sCRLF) \in DataComplete
       /\ last'.op = "partial" =>
            /\ last'.msg.text \in DataShort
            /\ pc' \in {"closed", "failed"}
            /\ ~connected' /\ ~welcomed'
            /\ users' = EmptyDict /\ channels' = EmptyDict /\ supported' = EmptyDict
            /\ writer_task' = "none" /\ message_queue' = <<>>
            /\ \A t \in timers' : keepalive_handler # <<t>>
            /\ last'.invoked = {} /\ last'.order = <<>> /\ ~last'.ran
            /\ futures' = futures /\ could_parse_message' = could_parse_message
            /\ nread' = nread]_vars

\* the session was welcomed and a callback is registered for PRIVMSG when a
\* PRIVMSG line arrives cut short: the read loop has ended and the session is
\* torn down
C19_Witness ==
    /\ last.op = "partial" /\ last.msg.text = sPrivmsg \o <<10>>
    /\ pc = "closed" /\ ~connected
    /\ host # <<>>
    /\ \E k \in callbacks : k.flag = "PRIVMSG"

\* the nickname asked for after each rejected one, written out
sMe1 == <<109, 101, 49>>
sMe2 == <<109, 101, 50>>
sMe3 == <<109, 101, 51>>
sMe10 == <<109, 101, 49, 48>>
NextCandidate(r) ==
    CASE r = nMe -> sMe1
      [] r = sMe1 -> sMe2
      [] r = sMe2 -> sMe3
      [] r = sMe3 -> <<109, 101, 52>>
      [] r = nMe \o sDigits09 -> sMe10
      [] OTHER -> sMe1

\* the place of a candidate in original, original1, original2, ...
Rank(name) == IF name = nMe THEN 0 ELSE DigitsValue(SubSeq(name, 3, Len(name)))

Is433(l) == l.op = "line" /\ l.msg.verb = "433" /\ Len(l.msg.params) = 3

\* C20: before the 001, a 433 reply sets the nickname asked for to the
\* original one with the suffix 1, or with the rejected suffix plus one, and
\* enqueues one NICK line for it; when the rejected nickname is the one asked
\* for, the new one comes later in original, original1, original2, ...; after
\* the 001, a 433 reply changes no nickname and enqueues nothing.
C20_Collision ==
    [][Is433(last') =>
         IF ~welcomed
         THEN /\ username' = NextCandidate(last'.msg.params[2])
              /\ message_queue' = Append(message_queue, sNICK \o username')
              /\ last'.msg.params[2] = username => Rank(username') = Rank(username) + 1
              /\ last'.ret = "True"
         ELSE /\ username' = username
              /\ message_queue' = message_queue
              /\ \A u \in DOMAIN uobj : u \in DOMAIN uobj' /\ uobj'[u].username = uobj[u].username
              /\ users' = users]_vars

\* "me1" was rejected before any 001, while the NICK line for it was still in
\* the queue: the session asks for "me2" and the NICK line for it is queued
\* behind
C20_Witness ==
    /\ Is433(last) /\ last.msg.params[2] = sMe1
    /\ ~welcomed /\ username = sMe2
    /\ message_queue = <<sNICK \o sMe1, sNICK \o sMe2>>

\* the JOIN lines of the configured channels, in their order
AutojoinJoins == [i \in 1..Len(autojoin) |-> sJOIN \o autojoin[i]]

Is001(l) == l.op = "line" /\ l.msg.verb = "001" /\ Len(l.msg.params) = 2

\* C21: a 001 reply makes a User of the nickname the server confirmed the own
\* user and registers it under that nickname, sets welcomed, enqueues the JOIN
\* lines of the autojoin channels in their order and nothing else, and arms a
\* new keepalive timer; while no 001 was processed, welcomed is false and no
\* JOIN and no PING line was enqueued.
C21_Welcome ==
    /\ [](ownuser = <<>> =>
            /\ ~welcomed /\ timers = {}
            /\ \A i \in DOMAIN submitted :
                 ~StartsWith(submitted[i], sJOIN) /\ ~StartsWith(submitted[i], sPING))
    /\ [][Is001(last') =>
            /\ ownuser' # <<>>
            /\ uobj'[ownuser'[1]].username = last'.msg.params[1]
            /\ CIcontains(users', last'.msg.params[1])
            /\ CIget(users', last'.msg.params[1]) = ownuser'[1]
            /\ welcomed'
            /\ message_queue' = message_queue \o AutojoinJoins
            /\ submitted' = submitted \o AutojoinJoins
            /\ keepalive_handler' # <<>>
            /\ keepalive_handler'[1] \in timers' \ timers
            /\ timers' = timers \cup {keepalive_handler'[1]}]_vars

\* the server confirmed "me1" to a session configured to join "#d" and then
\* "#c": the own user is "me1", and the queue holds the two JOIN lines in that
\* order, behind the timer that is armed
C21_Witness ==
    /\ Is001(last) /\ last.msg.params[1] = nMe1
    /\ autojoin = <<cD, cC>>
    /\ ownuser # <<>> /\ uobj[ownuser[1]].username = nMe1
    /\ welcomed /\ timers # {}
    /\ message_queue = <<sJOIN \o cD, sJOIN \o cC>>

\* a line whose verb getattr finds under neither name
Unhandled(l) ==
    l.op = "line" /\ l.msg.verb \notin Handlers \cup DOMAIN LogOnly \cup Attributes

\* C22: a line whose verb has no handler only reaches the default handler,
\* which returns False: the registries, the users and channels in them, the
\* capability table, the flags, the own user and the nickname are unchanged,
\* nothing is enqueued, no timer is armed, and no callback is run, whatever
\* the earlier lines did.
C22_Default ==
    [][Unhandled(last') =>
         /\ last'.ret = "False"
         /\ could_parse_message' = <<FALSE>>
         /\ pc' = "reading"
         /\ users' = users /\ channels' = channels /\ cobj' = cobj
         /\ DOMAIN uobj' = DOMAIN uobj
         /\ \A u \in DOMAIN uobj : /\ uobj'[u].username = uobj[u].username
                                   /\ uobj'[u].knownchannels = uobj[u].knownchannels
         /\ supported' = supported
         /\ connected' = connected /\ welcomed' = welcomed /\ reconnect' = reconnect
         /\ ownuser' = ownuser /\ host' = host /\ username' = username
         /\ message_queue' = message_queue /\ timers' = timers
         /\ ~last'.ran /\ last'.invoked = {} /\ last'.order = <<>>
         /\ futures' = futures /\ callbacks' = callbacks]_vars

\* a FOO line arrived after a line whose handler returned, while other code
\* had a callback registered for FOO and a task was waiting in on("FOO"): the
\* callback was not run and the task still waits
C22_Witness ==
    /\ Unhandled(last) /\ last.msg.verb = "FOO"
    /\ welcomed
    /\ \E k \in callbacks : k.flag = "FOO" /\ k.cb.kind = "plain"
    /\ \E f \in DOMAIN futures : futures[f].flag = "FOO" /\ futures[f].state = "pending"

\* "PING :s", the PING to the host that sent the 001
sPingHost == sPING \o nSrv

C24_Throttle ==
    /\ [][wire' # wire =>
            /\ writer_task = "get" /\ writer_task' = "sleep"
            /\ message_queue # <<>>
            /\ wire' = Append(wire, Head(message_queue))
            /\ message_queue' = Tail(message_queue)]_vars
    /\ [][writer_task = "sleep" =>
            /\ wire' = wire
            /\ writer_task' \in {"sleep", "get", "none"}
            /\ writer_task' = "get" => last'.op = "wake"]_vars

\* the drain loop wrote NICK, slept, and wrote USER while a third line was
\* waiting in the queue: it sleeps again
C24_Witness ==
    /\ last.op = "drain" /\ writer_task = "sleep"
    /\ Len(wire) = 2 /\ wire[1] = sNICK \o nMe
    /\ message_queue # <<>>

\* reset_connection has run: the read loop has ended and the drain loop is
\* cancelled
Reset == pc \in {"closed", "failed"} /\ writer_task = "none"

\* C25: the teardown cancels the drain loop and leaves the queue empty, and
\* from then on nothing is written to the socket: the lines that were
\* enqueued and not written stay unwritten.
C25_Dropped ==
    /\ [][last'.op \in {"timeout", "partial"} =>
            /\ Reset'
            /\ message_queue' = <<>>
            /\ wire' = wire]_vars
    /\ [][Reset => wire' = wire /\ Reset']_vars

\* the read timed out while lines of the session were waiting in the queue:
\* the queue is empty and fewer lines are written than were enqueued
C25_Witness ==
    /\ last.op = "timeout" /\ Reset
    /\ message_queue = <<>>
    /\ Len(wire) >= 1 /\ Len(submitted) >= Len(wire) + 2

\* the line each call of Send enqueues, written out
SentLine(f) ==
    CASE f = "write" -> <<65, 87, 65, 89>>
      [] f = "msg" -> <<80, 82, 73, 86, 77, 83, 71, 32, 35, 99, 32, 58, 104, 105>>
      [] f = "notice" -> <<78, 79, 84, 73, 67, 69, 32, 97, 108, 32, 58, 104, 105>>
      [] f = "join" -> <<74, 79, 73, 78, 32, 35, 100>>
      [] f = "part" -> <<80, 65, 82, 84, 32, 35, 99>>
      [] f = "nick" -> <<78, 73, 67, 75, 32, 58, 98, 111>>
      [] f = "user" -> <<85, 83, 69, 82, 32, 109, 101, 32, 45, 32, 45, 32, 58, 109, 101>>
      [] f = "who" -> <<87, 72, 79, 32, 35, 99, 32, 37, 117, 104, 110, 102, 97, 114>>

\* C26: a call of a sender appends its one line to the queue and returns; the
\* registries, the users and channels, the capability table, the nickname and
\* the flags are as before.  A channel enters the channel registry, and a user
\* changes its nickname, only in the step that processes a JOIN or a NICK line
\* of the server.
C26_Senders ==
    /\ [][last'.op = "send" =>
            /\ message_queue' = Append(message_queue, SentLine(last'.msg.verb))
            /\ users' = users /\ channels' = channels
            /\ uobj' = uobj /\ cobj' = cobj
            /\ supported' = supported /\ username' = username
            /\ ownuser' = ownuser /\ host' = host
            /\ connected' = connected /\ welcomed' = welcomed /\ reconnect' = reconnect
            /\ timers' = timers /\ writer_task' = writer_task
            /\ pc' = pc]_vars
    /\ [][(DOMAIN channels' # DOMAIN channels)
            => last'.op = "line" /\ last'.msg.verb = "JOIN" /\ last'.ret = "True"]_vars
    /\ [][(\E u \in DOMAIN uobj \cap DOMAIN uobj' : uobj'[u].username # uobj[u].username)
            => last'.op = "line" /\ last'.msg.verb = "NICK"]_vars

\* join("#d") was called in the welcomed session: "JOIN #d" is in the queue
\* behind the JOIN of the autojoin, and the channel registry is empty
C26_Witness ==
    /\ last.op = "send" /\ last.msg.verb = "join"
    /\ welcomed
    /\ message_queue = <<sJOIN \o cC, sJOIN \o cD>>
    /\ channels = EmptyDict

\* "NICK :me" and "USER me - - :me"
sNickMe == <<78, 73, 67, 75, 32, 58, 109, 101>>
sUserMe == <<85, 83, 69, 82, 32, 109, 101, 32, 45, 32, 45, 32, 58, 109, 101>>

\* C27: when read() is entered the drain loop runs and the NICK line and the
\* USER line are the first two lines enqueued, in this order; the first line
\* written to the socket is the NICK line and the second the USER line,
\* whatever the inbound lines made the session write.
C27_Registration ==
    /\ [](pc = "reading" =>
            /\ writer_task \in {"get", "sleep"}
            /\ Len(submitted) >= 2 /\ submitted[1] = sNickMe /\ submitted[2] = sUserMe)
    /\ [](Len(wire) >= 1 => wire[1] = sNickMe)
    /\ [](Len(wire) >= 2 => wire[2] = sUserMe)
    /\ [][last'.op = "connected" =>
            /\ writer_task = "none" /\ writer_task' = "get"
            /\ wire' = <<>> /\ nread' = 0
            /\ message_queue' = <<sNickMe, sUserMe>>]_vars

\* the session was welcomed while its registration lines were being written:
\* the JOIN of the autojoin is the third line on the socket
C27_Witness ==
    /\ wire = <<sNickMe, sUserMe, sJOIN \o cC>>
    /\ welcomed /\ pc = "reading"

\* C28: the callbacks are run for a line exactly when the handler of that
\* line returned (True: the verb has a handler and it did not raise).
C28_SameLine ==
    [][last'.op = "line" => (last'.ran <=> last'.ret = "True")]_vars

\* C29: when the read loop of a session that was never welcomed ends by a
\* timeout or a partial read, reset_connection returns and so does read().
C29_EarlyTeardown ==
    [][(last'.op \in {"timeout", "partial"} /\ host = <<>>) => pc' = "closed"]_vars

\* C30: a line whose sender prefix cannot be split (no verb after it, or a
\* "!" without "@") leaves the session as it is and the read loop reading.
C30_Malformed ==
    [][last'.op = "garbled" =>
         /\ pc' = "reading"
         /\ users' = users /\ channels' = channels /\ supported' = supported
         /\ message_queue' = message_queue
         /\ last'.invoked = {}]_vars

\* C31: at most one keepalive timer is pending in every reachable state, also
\* after a second 001 on the connection, and after the teardown of a session
\* that left read() by a break no keepalive timer is pending
C31_OneTimer ==
    /\ Cardinality(timers) <= 1
    /\ pc = "closed" => timers = {}

\* C32: the QUIT line that quit() enqueued is on the socket when the stream
\* that quit() closed has ended, and from the call of quit() on reconnect is
\* false
C32_QuitWritten ==
    /\ [][(pc = "quit" /\ pc' # "quit") => (\E i \in DOMAIN wire' : wire'[i] = sQUIT \o QuitMsg)]_vars
    /\ [][last'.op = "quit" /\ pc' = "quit" => ~reconnect']_vars
    /\ [][~reconnect => ~reconnect']_vars

\* C33: every channel of the channel registry has the local user in its member
\* registry: a channel is registered by the local user's own JOIN and leaves
\* the registry when the local user parts, is kicked or quits
C33_OwnMember ==
    \A c \in Values(channels) :
        /\ ownuser # <<>>
        /\ InMemberRegistry(ownuser[1], c)

\* C34: when a callback changes the registrations of the verb that is being
\* dispatched, every callback that was registered for the verb is invoked for
\* the line and the read loop goes on to the next line
C34_Undisturbed ==
    [][(last'.op = "line" /\ callbacks' # callbacks)
          => /\ last'.invoked = {k \in callbacks : k.flag = last'.msg.verb}
             /\ pc' = "reading"]_vars

\* C35: a line whose verb names an attribute of the receiver that is no reply
\* handler is treated as a line without handler: the default handler returns
\* False, the receiver keeps its session, the session state is unchanged and
\* no callback is run
C35_OnlyHandlers ==
    [][(last'.op = "line" /\ last'.msg.verb \in Attributes) =>
         /\ last'.ret = "False"
         /\ receiver' = receiver
         /\ users' = users /\ channels' = channels /\ cobj' = cobj
         /\ DOMAIN uobj' = DOMAIN uobj
         /\ supported' = supported /\ ownuser' = ownuser /\ username' = username
         /\ message_queue' = message_queue /\ timers' = timers
         /\ ~last'.ran /\ last'.invoked = {}]_vars

====
